---- MODULE Spec2Model ----
(***************************************************************************)
(* ShareWrapper of MOTION (src/motioncore/protocols/share_wrapper.cpp,     *)
(* kept in this tree under src/src/motioncore/utility/config.h.in):        *)
(* the protocol-polymorphic handle whose operators build the gate graph.   *)
(*                                                                         *)
(* A wire is [gate, bits, val]: the id of the gate that produces it (0 for *)
(* an input wire), the bit length of its value type (1 for a boolean wire, *)
(* the ring width for an arithmetic wire) and, for boolean wires, the      *)
(* plain value the wire reconstructs to (-1: value not tracked).           *)
(* A share is [protocol, T, wires]: its tag, the width of the ring type of *)
(* an arithmetic share (0 for a boolean share) and the ids of its wires.   *)
(* A gate is [id, kind, protocol, width, in, out]: in is one sequence of   *)
(* wire ids per constructor argument, out the id of the output share.      *)
(***************************************************************************)
EXTENDS Integers, Sequences, FiniteSets, TLC

VARIABLES
  gates,     \* Register: the gates in registration order
  nid,       \* Register: the id the next constructed gate gets
  shares,    \* every Share object created so far (index = identity)
  wires,     \* every Wire object created so far (index = identity)
  log,       \* Logger: the errors logged so far
  held,      \* the ShareWrappers the caller holds (share ids)
  calls,     \* the number of operator calls made
  last       \* the last operator call: name, operands, outcome

vars == <<gates, nid, shares, wires, log, held, calls, last>>

\* ------------------------------------------------------------------ bounds
MaxCalls == 2
MaxEqBits == 7
MaxMuxBits == 3

\* ---------------------------------------------------------- protocol tags
kArithmeticGmw == "ArithmeticGmw"
kBooleanGmw == "BooleanGmw"
kBmr == "Bmr"
kConstant == "Constant"

Protocols == {kArithmeticGmw, kBooleanGmw, kBmr}

\* ------------------------------------------------- exceptions of the code
NoError == "none"
ErrBooleanOnArithmetic ==
  "runtime_error: Boolean primitive operations are not supported for Arithmetic GMW shares"
ErrArithmeticOnly ==
  "runtime_error: Arithmetic primitive operations are only supported for arithmetic GMW shares"
ErrBadCast == "bad_cast"
ErrMuxNotImplemented ==
  "runtime_error: C-OT-based Mux for Arithmetic GMW shares is not implemented yet"
ErrSameProtocol ==
  "runtime_error: Trying to convert share to MpcProtocol it is already in"
ErrInvalidBitlength == "runtime_error: Invalid bitlength"
ErrJoinEmpty == "runtime_error: ShareWrapper cannot be empty"
ErrJoinTypes == "runtime_error: Trying to join shares of different types"
ErrJoinBitLength == "runtime_error: Incorrect bit length of arithmetic shares"
ErrJoinProtocol == "runtime_error: Unknown MPC protocol"
ErrPrimitiveType == "runtime_error: Invalid PrimitiveOperationType"
ErrOutOfRange == "out_of_range"
ErrUnknownRing == "runtime_error: Unknown arithmetic ring"
ErrUnknownProtocol == "runtime_error: Unknown MPC protocol with id"
\* a dynamic_pointer_cast that yields nullptr: assert(this_a) aborts a debug
\* build, a release build dereferences the null pointer
ErrFailedCast == "assertion failed or undefined behaviour: failed cast dereferenced"
\* dereferencing a null std::shared_ptr<ShareWrapper>
\* assert(...) on a condition that does not hold
ErrFailedAssert == "failed assert"
ErrNullDereference == "undefined behaviour: null pointer dereferenced"
\* std::vector::operator[] past the end of the vector
ErrOutOfBounds == "undefined behaviour: vector accessed out of bounds"

\* ------------------------------------------------------------ sequences
RECURSIVE Flatten(_)
Flatten(ss) == IF ss = <<>> THEN <<>> ELSE Head(ss) \o Flatten(Tail(ss))

Min(a, b) == IF a < b THEN a ELSE b

Range(s) == {s[i] : i \in DOMAIN s}

Replicate(n, x) == [i \in 1..n |-> x]

\* ------------------------------------------------ the Share interface
\* st is the object graph the operators work on:
\*   [gates, nid, shares, wires, log, leftFirst]
GetProtocol(st, s) == st.shares[s].protocol

GetWires(st, s) == st.shares[s].wires

IsConstant(st, s) == st.shares[s].protocol = kConstant

\* a boolean share has one wire per bit, an arithmetic share is a share of
\* the ring of its type T
GetBitLength(st, s) ==
  IF st.shares[s].protocol \in {kBooleanGmw, kBmr}
    THEN Len(st.shares[s].wires)
    ELSE st.shares[s].T

Values(st, s) == [i \in 1..Len(st.shares[s].wires) |-> st.wires[st.shares[s].wires[i]].val]

\* a new Share object over existing wires
NewShare(st, protocol, T, ws) ==
  [st |-> [st EXCEPT !.shares = Append(@, [protocol |-> protocol, T |-> T, wires |-> ws])],
   res |-> Len(st.shares) + 1,
   err |-> NoError]

Ok(st, s) == [st |-> st, res |-> s, err |-> NoError]

Throw(st, e) == [st |-> st, res |-> 0, err |-> e]

\* sequencing: F continues with the outcome of r unless r threw
Then(r, F(_)) == CHOOSE y \in {IF v.err # NoError THEN v ELSE F(v) : v \in {r}} : TRUE

\* ------------------------------------------------ the gate library
\* what the gate of a kind computes on the plain values of its arguments
Bit(b) == IF b THEN 1 ELSE 0

Tracked(a) == \A k \in DOMAIN a : \A i \in DOMAIN a[k] : a[k][i] \in {0, 1}

GateValues(kind, a, n) ==
  IF ~Tracked(a) THEN [i \in 1..n |-> -1]
  ELSE
  CASE kind = "Inv" -> [i \in 1..n |-> 1 - a[1][i]]
    [] kind = "Xor" -> [i \in 1..n |-> (a[1][i] + a[2][i]) % 2]
    [] kind = "And" -> [i \in 1..n |-> a[1][i] * a[2][i]]
    [] kind = "Mux" -> [i \in 1..n |-> IF a[3][1] = 1 THEN a[1][i] ELSE a[2][i]]
    [] kind \in {"BooleanGmwToBmr", "BmrToBooleanGmw"} -> [i \in 1..n |-> a[1][i]]
    [] OTHER -> [i \in 1..n |-> -1]

\* Gate constructor: takes the next gate id from the register and creates
\* the output wires and the output share; outn wires of outbits bits each
MakeGate(st, kind, protocol, width, args, outprotocol, outn, outbits) ==
  LET id == st.nid
      ins == [i \in 1..Len(args) |-> GetWires(st, args[i])]
      vals == GateValues(kind, [i \in 1..Len(args) |-> Values(st, args[i])], outn)
      first == Len(st.wires)
      neww == [i \in 1..outn |-> [gate |-> id, bits |-> outbits, val |-> vals[i]]]
      outshare == [protocol |-> outprotocol,
                   T |-> IF outprotocol \in {kBooleanGmw, kBmr} THEN 0 ELSE outbits,
                   wires |-> [i \in 1..outn |-> first + i]]
      out == Len(st.shares) + 1
  IN  [st |-> [st EXCEPT !.nid = id + 1,
                         !.wires = @ \o neww,
                         !.shares = Append(@, outshare)],
       gate |-> [id |-> id, kind |-> kind, protocol |-> protocol, width |-> width,
                 in |-> ins, out |-> out]]

GetOutputAsShare(g) == g.gate.out

\* Register::RegisterNextGate
RegisterNextGate(g) == [g.st EXCEPT !.gates = Append(@, g.gate)]

\* construct, register, wrap the output: the three statements every
\* gate-building branch of ShareWrapper consists of
Registered(g) == Ok(RegisterNextGate(g), GetOutputAsShare(g))

\* ------------------------------------------------ bitwise operators
\* operator~ without RegisterNextGate
OperatorNot_Unregistered(st, a) ==
  IF GetProtocol(st, a) = kArithmeticGmw THEN Throw(st, ErrBooleanOnArithmetic)
  ELSE IF GetProtocol(st, a) = kBooleanGmw
    THEN Ok(MakeGate(st, "Inv", kBooleanGmw, 0, <<a>>, kBooleanGmw,
                     GetBitLength(st, a), 1).st, Len(st.shares) + 1)
    ELSE Ok(MakeGate(st, "Inv", kBmr, 0, <<a>>, kBmr,
                     GetBitLength(st, a), 1).st, Len(st.shares) + 1)

OperatorNot(st, a) ==
  IF GetProtocol(st, a) = kArithmeticGmw THEN Throw(st, ErrBooleanOnArithmetic)
  ELSE IF GetProtocol(st, a) = kBooleanGmw
    THEN Registered(MakeGate(st, "Inv", kBooleanGmw, 0, <<a>>, kBooleanGmw,
                             GetBitLength(st, a), 1))
    ELSE Registered(MakeGate(st, "Inv", kBmr, 0, <<a>>, kBmr,
                             GetBitLength(st, a), 1))

\* operator^ without the test for arithmetic shares
OperatorXor_Unchecked(st, a, b) ==
  IF GetProtocol(st, a) = kBooleanGmw
    THEN Registered(MakeGate(st, "Xor", kBooleanGmw, 0, <<a, b>>, kBooleanGmw,
                             GetBitLength(st, a), 1))
    ELSE Registered(MakeGate(st, "Xor", kBmr, 0, <<a, b>>, kBmr,
                             Len(GetWires(st, a)), 1))

OperatorXor(st, a, b) ==
  IF GetProtocol(st, a) = kArithmeticGmw THEN Throw(st, ErrBooleanOnArithmetic)
  ELSE IF GetProtocol(st, a) = kBooleanGmw
    THEN Registered(MakeGate(st, "Xor", kBooleanGmw, 0, <<a, b>>, kBooleanGmw,
                             GetBitLength(st, a), 1))
    ELSE Registered(MakeGate(st, "Xor", kBmr, 0, <<a, b>>, kBmr,
                             GetBitLength(st, a), 1))

\* operator& building the gate of the other boolean protocol for Bmr shares
OperatorAnd_OtherProtocol(st, a, b) ==
  IF GetProtocol(st, a) = kArithmeticGmw THEN Throw(st, ErrBooleanOnArithmetic)
  ELSE Registered(MakeGate(st, "And", kBooleanGmw, 0, <<a, b>>, kBooleanGmw,
                           GetBitLength(st, a), 1))

OperatorAnd(st, a, b) ==
  IF GetProtocol(st, a) = kArithmeticGmw THEN Throw(st, ErrBooleanOnArithmetic)
  ELSE IF GetProtocol(st, a) = kBooleanGmw
    THEN Registered(MakeGate(st, "And", kBooleanGmw, 0, <<a, b>>, kBooleanGmw,
                             GetBitLength(st, a), 1))
    ELSE Registered(MakeGate(st, "And", kBmr, 0, <<a, b>>, kBmr,
                             GetBitLength(st, a), 1))

\* ~((~*this) & ~other): both operands of & are evaluated before &, in the
\* order the compiler chose (st.leftFirst); an exception ends the expression
\* operator| without the outer inversion
OperatorOr_NoOuterNot(st, a, b) ==
  IF GetProtocol(st, a) = kArithmeticGmw THEN Throw(st, ErrBooleanOnArithmetic)
  ELSE
    Then(OperatorNot(st, IF st.leftFirst THEN a ELSE b), LAMBDA n1 :
    Then(OperatorNot(n1.st, IF st.leftFirst THEN b ELSE a), LAMBDA n2 :
    OperatorAnd(n2.st, IF st.leftFirst THEN n1.res ELSE n2.res,
                       IF st.leftFirst THEN n2.res ELSE n1.res)))

OperatorOr(st, a, b) ==
  IF GetProtocol(st, a) = kArithmeticGmw THEN Throw(st, ErrBooleanOnArithmetic)
  ELSE
    Then(OperatorNot(st, IF st.leftFirst THEN a ELSE b), LAMBDA n1 :
    Then(OperatorNot(n1.st, IF st.leftFirst THEN b ELSE a), LAMBDA n2 :
    Then(OperatorAnd(n2.st, IF st.leftFirst THEN n1.res ELSE n2.res,
                            IF st.leftFirst THEN n2.res ELSE n1.res), LAMBDA ab :
    OperatorNot(ab.st, ab.res))))

\* ------------------------------------------------ arithmetic operators
Widths == {8, 16, 32, 64}

\* Add<T>: the two-input gate, or the constant-operand gate built as
\* (non-constant wire, constant wire)
Add(st, T, share, other) ==
  IF ~IsConstant(st, share) /\ ~IsConstant(st, other)
    THEN Registered(MakeGate(st, "Addition", kArithmeticGmw, T, <<share, other>>,
                             kArithmeticGmw, 1, T))
    ELSE LET c == IF IsConstant(st, other) THEN other ELSE share
             n == IF IsConstant(st, other) THEN share ELSE other
         IN  Registered(MakeGate(st, "ConstantArithmeticAddition", kConstant, T,
                                 <<n, c>>, kArithmeticGmw, 1, T))

Sub(st, T, share, other) ==
  IF IsConstant(st, share) \/ IsConstant(st, other) THEN Throw(st, ErrFailedCast)
  ELSE
  Registered(MakeGate(st, "Subtraction", kArithmeticGmw, T, <<share, other>>,
                      kArithmeticGmw, 1, T))

Mul(st, T, share, other) ==
  IF ~IsConstant(st, share) /\ ~IsConstant(st, other)
    THEN Registered(MakeGate(st, "Multiplication", kArithmeticGmw, T, <<share, other>>,
                             kArithmeticGmw, 1, T))
    ELSE LET c == IF IsConstant(st, other) THEN other ELSE share
             n == IF IsConstant(st, other) THEN share ELSE other
         IN  Registered(MakeGate(st, "ConstantArithmeticMultiplication", kConstant, T,
                                 <<n, c>>, kArithmeticGmw, 1, T))

Square(st, T, share) ==
  Registered(MakeGate(st, "Square", kArithmeticGmw, T, <<share>>, kArithmeticGmw, 1, T))

OperatorPlus(st, a, b) ==
  IF GetProtocol(st, a) # kArithmeticGmw /\ GetProtocol(st, b) # kArithmeticGmw
    THEN Throw(st, ErrArithmeticOnly)
  ELSE IF GetBitLength(st, a) = 8 THEN Add(st, 8, a, b)
  ELSE IF GetBitLength(st, a) = 16 THEN Add(st, 16, a, b)
  ELSE IF GetBitLength(st, a) = 32 THEN Add(st, 32, a, b)
  ELSE IF GetBitLength(st, a) = 64 THEN Add(st, 64, a, b)
  ELSE Throw(st, ErrBadCast)

\* operator- with the 16 bit case sent to the 8 bit specialization
OperatorMinus_Sixteen(st, a, b) ==
  IF GetProtocol(st, a) # kArithmeticGmw /\ GetProtocol(st, b) # kArithmeticGmw
    THEN Throw(st, ErrArithmeticOnly)
  ELSE IF GetBitLength(st, a) = 8 THEN Sub(st, 8, a, b)
  ELSE IF GetBitLength(st, a) = 16 THEN Sub(st, 8, a, b)
  ELSE IF GetBitLength(st, a) = 32 THEN Sub(st, 32, a, b)
  ELSE IF GetBitLength(st, a) = 64 THEN Sub(st, 64, a, b)
  ELSE Throw(st, ErrBadCast)

OperatorMinus(st, a, b) ==
  IF GetProtocol(st, a) # kArithmeticGmw /\ GetProtocol(st, b) # kArithmeticGmw
    THEN Throw(st, ErrArithmeticOnly)
  ELSE IF GetBitLength(st, a) = 8 THEN Sub(st, 8, a, b)
  ELSE IF GetBitLength(st, a) = 16 THEN Sub(st, 16, a, b)
  ELSE IF GetBitLength(st, a) = 32 THEN Sub(st, 32, a, b)
  ELSE IF GetBitLength(st, a) = 64 THEN Sub(st, 64, a, b)
  ELSE Throw(st, ErrBadCast)

\* operator* with the width dispatch ahead of the protocol test
OperatorTimes_DispatchFirst(st, a, b) ==
  IF GetBitLength(st, a) \notin Widths THEN Throw(st, ErrBadCast)
  ELSE IF GetProtocol(st, a) # kArithmeticGmw /\ GetProtocol(st, b) # kArithmeticGmw
    THEN Throw(st, ErrArithmeticOnly)
  ELSE IF a = b THEN Square(st, GetBitLength(st, a), a)
  ELSE Mul(st, GetBitLength(st, a), a, b)

\* operator* squaring whenever the two operands hold equal values
OperatorTimes_EqualValues(st, a, b) ==
  IF GetProtocol(st, a) # kArithmeticGmw /\ GetProtocol(st, b) # kArithmeticGmw
    THEN Throw(st, ErrArithmeticOnly)
  ELSE IF GetBitLength(st, a) \notin Widths THEN Throw(st, ErrBadCast)
  ELSE IF Values(st, a) = Values(st, b) /\ GetProtocol(st, a) = GetProtocol(st, b)
    THEN Square(st, GetBitLength(st, a), a)
    ELSE Mul(st, GetBitLength(st, a), a, b)

OperatorTimes(st, a, b) ==
  IF GetProtocol(st, a) # kArithmeticGmw /\ GetProtocol(st, b) # kArithmeticGmw
    THEN Throw(st, ErrArithmeticOnly)
  ELSE IF a = b  \* squaring: the same Share object
    THEN IF GetBitLength(st, a) = 8 THEN Square(st, 8, a)
         ELSE IF GetBitLength(st, a) = 16 THEN Square(st, 16, a)
         ELSE IF GetBitLength(st, a) = 32 THEN Square(st, 32, a)
         ELSE IF GetBitLength(st, a) = 64 THEN Square(st, 64, a)
         ELSE Throw(st, ErrBadCast)
    ELSE IF GetBitLength(st, a) = 8 THEN Mul(st, 8, a, b)
         ELSE IF GetBitLength(st, a) = 16 THEN Mul(st, 16, a, b)
         ELSE IF GetBitLength(st, a) = 32 THEN Mul(st, 32, a, b)
         ELSE IF GetBitLength(st, a) = 64 THEN Mul(st, 64, a, b)
         ELSE Throw(st, ErrBadCast)

\* ------------------------------------------------ Split and Join
\* one single-wire share per wire, in wire order; res is the sequence of
\* the new shares
\* Split handing out the wires in reverse order
Split_Reversed(st, s) ==
  LET ws == GetWires(st, s)
      n == Len(ws)
      first == Len(st.shares)
      new == [i \in 1..n |-> [protocol |-> GetProtocol(st, s), T |-> st.shares[s].T,
                               wires |-> <<ws[n + 1 - i]>>]]
  IN  [st |-> [st EXCEPT !.shares = @ \o new],
       res |-> [i \in 1..n |-> first + i],
       err |-> NoError]

Split(st, s) ==
  LET ws == GetWires(st, s)
      n == Len(ws)
      first == Len(st.shares)
      new == [i \in 1..n |-> [protocol |-> GetProtocol(st, s), T |-> st.shares[s].T,
                               wires |-> <<ws[i]>>]]
  IN  [st |-> [st EXCEPT !.shares = @ \o new],
       res |-> [i \in 1..n |-> first + i],
       err |-> NoError]

\* Join appending the other wires to the first share instead of making a share
Join_InPlace(st, ss) ==
  IF ss = <<>> THEN Throw(st, ErrJoinEmpty)
  ELSE IF \E i \in 2..Len(ss) : GetProtocol(st, ss[i]) # GetProtocol(st, ss[1])
    THEN Throw(st, ErrJoinTypes)
  ELSE IF GetProtocol(st, ss[1]) \notin Protocols THEN Throw(st, ErrJoinProtocol)
  ELSE IF /\ GetProtocol(st, ss[1]) = kArithmeticGmw
          /\ st.wires[GetWires(st, ss[1])[1]].bits \notin Widths
    THEN Throw(st, ErrJoinBitLength)
  ELSE Ok([st EXCEPT !.shares[ss[1]].wires =
                       Flatten([i \in 1..Len(ss) |-> GetWires(st, ss[i])])],
          ss[1])

\* Join comparing only the second element's protocol with the first's
Join_SecondOnly(st, ss) ==
  IF ss = <<>> THEN Throw(st, ErrJoinEmpty)
  ELSE IF Len(ss) >= 2 /\ GetProtocol(st, ss[2]) # GetProtocol(st, ss[1])
    THEN Throw(st, ErrJoinTypes)
  ELSE
    LET ws == Flatten([i \in 1..Len(ss) |-> GetWires(st, ss[i])])
        protocol == GetProtocol(st, ss[1])
    IN  IF protocol = kArithmeticGmw
          THEN IF st.wires[ws[1]].bits \in Widths
                 THEN NewShare(st, kArithmeticGmw, st.wires[ws[1]].bits, ws)
                 ELSE Throw(st, ErrJoinBitLength)
        ELSE IF protocol = kBooleanGmw THEN NewShare(st, kBooleanGmw, 0, ws)
        ELSE IF protocol = kBmr THEN NewShare(st, kBmr, 0, ws)
        ELSE Throw(st, ErrJoinProtocol)

Join(st, ss) ==
  IF ss = <<>> THEN Throw(st, ErrJoinEmpty)
  ELSE IF \E i \in 2..Len(ss) : GetProtocol(st, ss[i]) # GetProtocol(st, ss[1])
    THEN Throw(st, ErrJoinTypes)
  ELSE
    LET ws == Flatten([i \in 1..Len(ss) |-> GetWires(st, ss[i])])
        protocol == GetProtocol(st, ss[1])
    IN  IF protocol = kArithmeticGmw
          THEN IF st.wires[ws[1]].bits = 8 THEN NewShare(st, kArithmeticGmw, 8, ws)
               ELSE IF st.wires[ws[1]].bits = 16 THEN NewShare(st, kArithmeticGmw, 16, ws)
               ELSE IF st.wires[ws[1]].bits = 32 THEN NewShare(st, kArithmeticGmw, 32, ws)
               ELSE IF st.wires[ws[1]].bits = 64 THEN NewShare(st, kArithmeticGmw, 64, ws)
               ELSE Throw(st, ErrJoinBitLength)
        ELSE IF protocol = kBooleanGmw THEN NewShare(st, kBooleanGmw, 0, ws)
        ELSE IF protocol = kBmr THEN NewShare(st, kBmr, 0, ws)
        ELSE Throw(st, ErrJoinProtocol)

\* ------------------------------------------------ AND reduction
IsPowerOfTwo(n) == n \in {1, 2, 4, 8, 16, 32, 64, 128}

\* balanced tree of AND gates: each round ANDs the first half of the live
\* wires with the second half
RECURSIVE FullAndTree(_, _)
FullAndTree(st, s) ==
  IF GetBitLength(st, s) = 1 THEN Ok(st, s)
  ELSE
    Then(Split(st, s), LAMBDA sp :
    Then(Join(sp.st, SubSeq(sp.res, 1, Len(sp.res) \div 2)), LAMBDA l :
    Then(Join(l.st, SubSeq(sp.res, Len(sp.res) \div 2 + 1, Len(sp.res))), LAMBDA r :
    Then(OperatorAnd(r.st, l.res, r.res), LAMBDA x :
    FullAndTree(x.st, x.res)))))

\* ------------------------------------------------ equality
LogError(st, msg) == [st EXCEPT !.log = Append(@, msg)]

\* the segment loop without offset += i
RECURSIVE Segments_NoOffset(_, _, _, _, _, _)
Segments_NoOffset(st, split, inner, i, offset, q) ==
  IF i > inner THEN [st |-> st, res |-> q, err |-> NoError]
  ELSE IF (inner \div i) % 2 = 1
    THEN Then(Join(st, SubSeq(split, offset + 1, offset + i)), LAMBDA j :
         Segments_NoOffset(j.st, split, inner, 2 * i, offset, Append(q, j.res)))
    ELSE Segments_NoOffset(st, split, inner, 2 * i, offset, q)

\* the segment loop with offset += i / 2
RECURSIVE Segments_HalfOffset(_, _, _, _, _, _)
Segments_HalfOffset(st, split, inner, i, offset, q) ==
  IF i > inner THEN [st |-> st, res |-> q, err |-> NoError]
  ELSE IF (inner \div i) % 2 = 1
    THEN Then(Join(st, SubSeq(split, offset + 1, offset + i)), LAMBDA j :
         Segments_HalfOffset(j.st, split, inner, 2 * i, offset + i \div 2, Append(q, j.res)))
    ELSE Segments_HalfOffset(st, split, inner, 2 * i, offset, q)

\* for (i = 1; i <= inner_bitlength; i *= 2): one Join per set bit of
\* inner_bitlength, over split[offset, offset + i)
RECURSIVE Segments(_, _, _, _, _, _)
Segments(st, split, inner, i, offset, q) ==
  IF i > inner THEN [st |-> st, res |-> q, err |-> NoError]
  ELSE IF (inner \div i) % 2 = 1
    THEN Then(Join(st, SubSeq(split, offset + 1, offset + i)), LAMBDA j :
         Segments(j.st, split, inner, 2 * i, offset + i, Append(q, j.res)))
    ELSE Segments(st, split, inner, 2 * i, offset, q)

\* the reduction handing on the segments without the AND trees
Reduce_NoAndTree(st, q, output) == [st |-> st, res |-> q, err |-> NoError]

\* while (!q.empty()) output.emplace_back(FullAndTree(q.front()))
RECURSIVE Reduce(_, _, _)
Reduce(st, q, output) ==
  IF q = <<>> THEN [st |-> st, res |-> output, err |-> NoError]
  ELSE Then(FullAndTree(st, Head(q)), LAMBDA t :
       Reduce(t.st, Tail(q), Append(output, t.res)))

\* the body of the while loop: split, one segment per set bit of the bit
\* length, AND-reduce every segment, rejoin; q keeps the segments
EqIteration(st, result) ==
  Then(Split(st, result), LAMBDA split :
  Then(Segments(split.st, split.res, GetBitLength(st, result), 1, 0, <<>>), LAMBDA q :
  Then(Reduce(q.st, q.res, <<>>), LAMBDA output :
  Then(Join(output.st, output.res), LAMBDA joined :
  [st |-> joined.st, res |-> joined.res, err |-> NoError, q |-> q.res]))))

\* while (result->GetBitLength() != 1)
RECURSIVE EqLoop(_, _)
EqLoop(st, result) ==
  IF GetBitLength(st, result) = 1 THEN Ok(st, result)
  ELSE Then(EqIteration(st, result), LAMBDA joined : EqLoop(joined.st, joined.res))

\* the two logged (and not thrown) complaints of operator==
EqLogged(st, a, b) ==
  IF GetBitLength(st, b) # GetBitLength(st, a)
    THEN LogError(st, "Comparing shared bit strings of different bit lengths")
  ELSE IF GetBitLength(st, b) = 0
    THEN LogError(st, "Comparing shared bit strings of bit length 0 is not allowed")
  ELSE st

\* auto result = ~(*this ^ other), after the length checks
Xnor(st, a, b) ==
  Then(OperatorXor(EqLogged(st, a, b), a, b), LAMBDA x : OperatorNot(x.st, x.res))

OperatorEq(st, a, b) ==
  Then(Xnor(st, a, b), LAMBDA result :
  IF GetBitLength(result.st, result.res) = 1 THEN result
  ELSE IF IsPowerOfTwo(GetBitLength(result.st, result.res))
    THEN FullAndTree(result.st, result.res)
  ELSE EqLoop(result.st, result.res))

\* ------------------------------------------------ selection
\* Mux returning a ^ mask
Mux_WrongBranch(st, s, a, b) ==
  IF GetProtocol(st, s) = kArithmeticGmw THEN Throw(st, ErrMuxNotImplemented)
  ELSE IF GetProtocol(st, s) = kBooleanGmw
    THEN Registered(MakeGate(st, "Mux", kBooleanGmw, 0, <<a, b, s>>, kBooleanGmw,
                             GetBitLength(st, a), 1))
  ELSE
    Then(OperatorXor(st, a, b), LAMBDA a_xor_b :
    Then(Join(a_xor_b.st, Replicate(GetBitLength(a_xor_b.st, a_xor_b.res), s)), LAMBDA mask :
    Then(OperatorAnd(mask.st, mask.res, a_xor_b.res), LAMBDA masked :
    OperatorXor(masked.st, a, masked.res))))

\* Mux without the test for arithmetic shares
Mux_Unchecked(st, s, a, b) ==
  IF GetProtocol(st, s) = kBooleanGmw
    THEN Registered(MakeGate(st, "Mux", kBooleanGmw, 0, <<a, b, s>>, kBooleanGmw,
                             GetBitLength(st, a), 1))
  ELSE
    Then(OperatorXor(st, a, b), LAMBDA a_xor_b :
    Then(Join(a_xor_b.st, Replicate(GetBitLength(a_xor_b.st, a_xor_b.res), s)), LAMBDA mask :
    Then(OperatorAnd(mask.st, mask.res, a_xor_b.res), LAMBDA masked :
    OperatorXor(masked.st, b, masked.res))))

\* s.Mux(a, b)
Mux(st, s, a, b) ==
  IF GetProtocol(st, s) = kArithmeticGmw THEN Throw(st, ErrMuxNotImplemented)
  ELSE IF GetProtocol(st, s) = kBooleanGmw
    THEN Registered(MakeGate(st, "Mux", kBooleanGmw, 0, <<a, b, s>>, kBooleanGmw,
                             GetBitLength(st, a), 1))
  ELSE
    Then(OperatorXor(st, a, b), LAMBDA a_xor_b :
    Then(Join(a_xor_b.st, Replicate(GetBitLength(a_xor_b.st, a_xor_b.res), s)), LAMBDA mask :
    Then(OperatorAnd(mask.st, mask.res, a_xor_b.res), LAMBDA masked :
    OperatorXor(masked.st, b, masked.res))))

\* ------------------------------------------------ conversion
ArithmeticGmwToBmr(st, a) ==
  Registered(MakeGate(st, "ArithmeticGmwToBmr", "Conversion", 0, <<a>>, kBmr,
                      GetBitLength(st, a), 1))

BooleanGmwToArithmeticGmw(st, a) ==
  LET bitlength == GetBitLength(st, a) IN
  IF bitlength = 8
    THEN Registered(MakeGate(st, "GmwToArithmetic", "Conversion", 8, <<a>>,
                             kArithmeticGmw, 1, 8))
  ELSE IF bitlength = 16
    THEN Registered(MakeGate(st, "GmwToArithmetic", "Conversion", 16, <<a>>,
                             kArithmeticGmw, 1, 16))
  ELSE IF bitlength = 32
    THEN Registered(MakeGate(st, "GmwToArithmetic", "Conversion", 32, <<a>>,
                             kArithmeticGmw, 1, 32))
  ELSE IF bitlength = 64
    THEN Registered(MakeGate(st, "GmwToArithmetic", "Conversion", 64, <<a>>,
                             kArithmeticGmw, 1, 64))
  ELSE Throw(st, ErrInvalidBitlength)

BooleanGmwToBmr(st, a) ==
  Registered(MakeGate(st, "BooleanGmwToBmr", "Conversion", 0, <<a>>, kBmr,
                      GetBitLength(st, a), 1))

BmrToBooleanGmw(st, a) ==
  Registered(MakeGate(st, "BmrToBooleanGmw", "Conversion", 0, <<a>>, kBooleanGmw,
                      GetBitLength(st, a), 1))

\* Convert<P>() without the test for the share's own protocol
RECURSIVE Convert_Unchecked(_, _, _)
Convert_Unchecked(st, P, a) ==
  IF P = kArithmeticGmw
    THEN IF GetProtocol(st, a) = kBooleanGmw
           THEN BooleanGmwToArithmeticGmw(st, a)
           ELSE Then(Convert_Unchecked(st, kBooleanGmw, a), LAMBDA via :
                Convert_Unchecked(via.st, kArithmeticGmw, via.res))
  ELSE IF P = kBooleanGmw
    THEN IF GetProtocol(st, a) = kArithmeticGmw
           THEN Then(Convert_Unchecked(st, kBmr, a), LAMBDA via :
                Convert_Unchecked(via.st, kBooleanGmw, via.res))
           ELSE BmrToBooleanGmw(st, a)
  ELSE IF GetProtocol(st, a) = kArithmeticGmw
    THEN ArithmeticGmwToBmr(st, a)
    ELSE BooleanGmwToBmr(st, a)

\* Convert<P>() with ArithmeticGmw -> BooleanGmw built from one gate
RECURSIVE Convert_DirectToBoolean(_, _, _)
Convert_DirectToBoolean(st, P, a) ==
  IF GetProtocol(st, a) = P THEN Throw(st, ErrSameProtocol)
  ELSE IF P = kArithmeticGmw
    THEN IF GetProtocol(st, a) = kBooleanGmw
           THEN BooleanGmwToArithmeticGmw(st, a)
           ELSE Then(Convert_DirectToBoolean(st, kBooleanGmw, a), LAMBDA via :
                Convert_DirectToBoolean(via.st, kArithmeticGmw, via.res))
  ELSE IF P = kBooleanGmw
    THEN BmrToBooleanGmw(st, a)
  ELSE IF GetProtocol(st, a) = kArithmeticGmw
    THEN ArithmeticGmwToBmr(st, a)
    ELSE BooleanGmwToBmr(st, a)

\* Convert<P>() with Bmr -> ArithmeticGmw built from one gate
RECURSIVE Convert_DirectToArithmetic(_, _, _)
Convert_DirectToArithmetic(st, P, a) ==
  IF GetProtocol(st, a) = P THEN Throw(st, ErrSameProtocol)
  ELSE IF P = kArithmeticGmw
    THEN BooleanGmwToArithmeticGmw(st, a)
  ELSE IF P = kBooleanGmw
    THEN IF GetProtocol(st, a) = kArithmeticGmw
           THEN Then(Convert_DirectToArithmetic(st, kBmr, a), LAMBDA via :
                Convert_DirectToArithmetic(via.st, kBooleanGmw, via.res))
           ELSE BmrToBooleanGmw(st, a)
  ELSE IF GetProtocol(st, a) = kArithmeticGmw
    THEN ArithmeticGmwToBmr(st, a)
    ELSE BooleanGmwToBmr(st, a)

\* Convert<P>()
RECURSIVE Convert(_, _, _)
Convert(st, P, a) ==
  IF GetProtocol(st, a) = P THEN Throw(st, ErrSameProtocol)
  ELSE IF P = kArithmeticGmw
    THEN IF GetProtocol(st, a) = kBooleanGmw
           THEN BooleanGmwToArithmeticGmw(st, a)
           ELSE Then(Convert(st, kBooleanGmw, a), LAMBDA via :
                Convert(via.st, kArithmeticGmw, via.res))
  ELSE IF P = kBooleanGmw
    THEN IF GetProtocol(st, a) = kArithmeticGmw
           THEN Then(Convert(st, kBmr, a), LAMBDA via :
                Convert(via.st, kBooleanGmw, via.res))
           ELSE BmrToBooleanGmw(st, a)
  ELSE IF GetProtocol(st, a) = kArithmeticGmw
    THEN ArithmeticGmwToBmr(st, a)
    ELSE BooleanGmwToBmr(st, a)

\* ------------------------------------------------ output
\* Backend::ArithmeticGmwOutput<T>, BooleanGmwOutput, BmrOutput: the output
\* gate for output_owner, registered by the backend
BackendOutput(st, protocol, T, a, output_owner) ==
  LET g == MakeGate(st, "Output", protocol, T, <<a>>, protocol,
                    Len(GetWires(st, a)), st.wires[GetWires(st, a)[1]].bits)
  IN  Registered([st |-> g.st, gate |-> g.gate @@ [output_owner |-> output_owner]])

\* Out whose protocol switch has no default case
Out_NoDefault(st, a, output_owner) ==
  IF GetProtocol(st, a) = kArithmeticGmw
    THEN IF GetBitLength(st, a) \in Widths
           THEN BackendOutput(st, kArithmeticGmw, GetBitLength(st, a), a, output_owner)
           ELSE Throw(st, ErrUnknownRing)
  ELSE IF GetProtocol(st, a) = kBooleanGmw
    THEN BackendOutput(st, kBooleanGmw, 0, a, output_owner)
  ELSE BackendOutput(st, kBmr, 0, a, output_owner)

Out(st, a, output_owner) ==
  IF GetProtocol(st, a) = kArithmeticGmw
    THEN IF GetBitLength(st, a) = 8 THEN BackendOutput(st, kArithmeticGmw, 8, a, output_owner)
         ELSE IF GetBitLength(st, a) = 16
           THEN BackendOutput(st, kArithmeticGmw, 16, a, output_owner)
         ELSE IF GetBitLength(st, a) = 32
           THEN BackendOutput(st, kArithmeticGmw, 32, a, output_owner)
         ELSE IF GetBitLength(st, a) = 64
           THEN BackendOutput(st, kArithmeticGmw, 64, a, output_owner)
         ELSE Throw(st, ErrUnknownRing)
  ELSE IF GetProtocol(st, a) = kBooleanGmw
    THEN BackendOutput(st, kBooleanGmw, 0, a, output_owner)
  ELSE IF GetProtocol(st, a) = kBmr
    THEN BackendOutput(st, kBmr, 0, a, output_owner)
  ELSE Throw(st, ErrUnknownProtocol)

\* ------------------------------------------------ circuit evaluation
\* AlgorithmDescription: wire indices count from 0, an absent optional is <<>>
AlgXor ==
  [number_of_input_wires_parent_a |-> 1, number_of_input_wires_parent_b |-> <<1>>,
   number_of_output_wires |-> 1, number_of_wires |-> 3, number_of_gates |-> 1,
   gates |-> << [type |-> "kXor", parent_a |-> 0, parent_b |-> <<1>>, output_wire |-> 2] >>]

AlgOrInv ==
  [number_of_input_wires_parent_a |-> 2, number_of_input_wires_parent_b |-> <<>>,
   number_of_output_wires |-> 1, number_of_wires |-> 4, number_of_gates |-> 2,
   gates |-> << [type |-> "kOr", parent_a |-> 0, parent_b |-> <<1>>, output_wire |-> 2],
                [type |-> "kInv", parent_a |-> 2, parent_b |-> <<>>, output_wire |-> 3] >>]

AlgAndXor ==
  [number_of_input_wires_parent_a |-> 2, number_of_input_wires_parent_b |-> <<1>>,
   number_of_output_wires |-> 2, number_of_wires |-> 5, number_of_gates |-> 2,
   gates |-> << [type |-> "kAnd", parent_a |-> 0, parent_b |-> <<1>>, output_wire |-> 3],
                [type |-> "kXor", parent_a |-> 3, parent_b |-> <<2>>, output_wire |-> 4] >>]

Algorithms == {AlgXor, AlgOrInv, AlgAndXor}

NumberOfInputWires(algorithm) ==
  algorithm.number_of_input_wires_parent_a +
    (IF algorithm.number_of_input_wires_parent_b # <<>>
       THEN algorithm.number_of_input_wires_parent_b[1] ELSE 0)

\* the gate switch without a default case: any other tag falls into kOr
ApplyGate_NoDefault(st, gate, slots) ==
  IF gate.parent_a >= Len(slots) THEN Throw(st, ErrOutOfRange)
  ELSE IF gate.type = "kInv"
    THEN IF slots[gate.parent_a + 1] = 0 THEN Throw(st, ErrNullDereference)
         ELSE OperatorNot(st, slots[gate.parent_a + 1])
  ELSE IF gate.parent_b[1] >= Len(slots) THEN Throw(st, ErrOutOfRange)
  ELSE IF slots[gate.parent_a + 1] = 0 \/ slots[gate.parent_b[1] + 1] = 0
    THEN Throw(st, ErrNullDereference)
  ELSE IF gate.type = "kXor"
    THEN OperatorXor(st, slots[gate.parent_a + 1], slots[gate.parent_b[1] + 1])
  ELSE IF gate.type = "kAnd"
    THEN OperatorAnd(st, slots[gate.parent_a + 1], slots[gate.parent_b[1] + 1])
  ELSE OperatorOr(st, slots[gate.parent_a + 1], slots[gate.parent_b[1] + 1])

\* the primitive a gate record names, applied to the slots of its parents;
\* slots is pointers_to_wires_of_split_share (0: nullptr), index i at i + 1
ApplyGate(st, gate, slots) ==
  IF gate.type \notin {"kXor", "kAnd", "kOr", "kInv"} THEN Throw(st, ErrPrimitiveType)
  ELSE IF gate.parent_a >= Len(slots) THEN Throw(st, ErrOutOfRange)
  ELSE IF gate.type = "kInv"
    THEN IF slots[gate.parent_a + 1] = 0 THEN Throw(st, ErrNullDereference)
         ELSE OperatorNot(st, slots[gate.parent_a + 1])
  ELSE IF gate.parent_b[1] >= Len(slots) THEN Throw(st, ErrOutOfRange)
  ELSE IF slots[gate.parent_a + 1] = 0 \/ slots[gate.parent_b[1] + 1] = 0
    THEN Throw(st, ErrNullDereference)
  ELSE IF gate.type = "kXor"
    THEN OperatorXor(st, slots[gate.parent_a + 1], slots[gate.parent_b[1] + 1])
  ELSE IF gate.type = "kAnd"
    THEN OperatorAnd(st, slots[gate.parent_a + 1], slots[gate.parent_b[1] + 1])
  ELSE OperatorOr(st, slots[gate.parent_a + 1], slots[gate.parent_b[1] + 1])

\* the body of the gate loop storing the new wrapper in the slot of parent_a
EvaluateGate_ParentSlot(st, algorithm, slots, gate_i) ==
  IF gate_i >= Len(algorithm.gates) THEN Throw(st, ErrOutOfRange)
  ELSE
    Then(ApplyGate(st, algorithm.gates[gate_i + 1], slots), LAMBDA r :
    [st |-> r.st,
     res |-> [slots EXCEPT ![algorithm.gates[gate_i + 1].parent_a + 1] = r.res],
     err |-> NoError])

\* the body of the gate loop: gates.at(gate_i), the primitive on the slots of
\* its parents, the new wrapper stored at output_wire; res is the slots
EvaluateGate(st, algorithm, slots, gate_i) ==
  IF gate_i >= Len(algorithm.gates) THEN Throw(st, ErrOutOfRange)
  ELSE
    Then(ApplyGate(st, algorithm.gates[gate_i + 1], slots), LAMBDA r :
    IF algorithm.gates[gate_i + 1].output_wire >= Len(slots) THEN Throw(r.st, ErrOutOfRange)
    ELSE [st |-> r.st,
          res |-> [slots EXCEPT ![algorithm.gates[gate_i + 1].output_wire + 1] = r.res],
          err |-> NoError])

\* for (wire_i = number_of_input_wires, gate_i = 0; wire_i < number_of_wires; ...)
RECURSIVE EvaluateLoop(_, _, _, _, _)
EvaluateLoop(st, algorithm, slots, wire_i, gate_i) ==
  IF wire_i >= algorithm.number_of_wires THEN [st |-> st, res |-> slots, err |-> NoError]
  ELSE Then(EvaluateGate(st, algorithm, slots, gate_i), LAMBDA r :
       EvaluateLoop(r.st, algorithm, r.res, wire_i + 1, gate_i + 1))

\* the error Evaluate logs (and does not throw)
EvaluateLogged(st, s, algorithm) ==
  IF NumberOfInputWires(algorithm) # GetBitLength(st, s)
    THEN LogError(st, "ShareWrapper::Evaluate: expected a share of another bit length")
    ELSE st

\* the output wrappers taken from the front of the slots
OutputSlots_First(algorithm, slots) ==
  IF Len(slots) < algorithm.number_of_output_wires THEN <<>>
  ELSE SubSeq(slots, 1, algorithm.number_of_output_wires)

\* the output wrappers: the last number_of_output_wires slots; in size_t
\* arithmetic a start below 0 wraps around and the loop is empty
OutputSlots(algorithm, slots) ==
  IF Len(slots) < algorithm.number_of_output_wires THEN <<>>
  ELSE SubSeq(slots, Len(slots) - algorithm.number_of_output_wires + 1, Len(slots))

\* pointers_to_wires_of_split_share after resize(number_of_wires, nullptr)
InputSlots(algorithm, split) ==
  [i \in 1..algorithm.number_of_wires |-> IF i <= Len(split) THEN split[i] ELSE 0]

\* return ShareWrapper::Join(output)
EvaluateOutput(st, algorithm, slots) ==
  IF \E i \in DOMAIN OutputSlots(algorithm, slots) : OutputSlots(algorithm, slots)[i] = 0
    THEN Throw(st, ErrNullDereference)
    ELSE Join(st, OutputSlots(algorithm, slots))

Evaluate(st, s, algorithm) ==
  Then(Split(EvaluateLogged(st, s, algorithm), s), LAMBDA split :
  Then(EvaluateLoop(split.st, algorithm, InputSlots(algorithm, split.res),
                    NumberOfInputWires(algorithm), 0), LAMBDA loop :
  EvaluateOutput(loop.st, algorithm, loop.res)))

\* ------------------------------------------------ the caller
\* leftFirst: the build evaluates the left operand of operator& first (the
\* order is unspecified)
StOrder(leftFirst) ==
  [gates |-> gates, nid |-> nid, shares |-> shares, wires |-> wires, log |-> log,
   leftFirst |-> leftFirst]

St == StOrder(TRUE)

\* what a call that ran into undefined behaviour can turn out as
Outcomes(e) ==
  IF e = ErrNullDereference THEN {"SIGSEGV", "unpredictable"}
  ELSE IF e = ErrOutOfBounds THEN {"SIGSEGV", "unpredictable"}
  ELSE IF e = ErrFailedCast THEN {"SIGABRT", "SIGSEGV", "unpredictable"}
  ELSE IF e = ErrFailedAssert THEN {"SIGABRT", "unpredictable"}
  ELSE {e}

\* an exception the caller does not catch, or a crash, ends the program
CanCall == last.err = NoError /\ calls < MaxCalls

IsBoolean(s) == shares[s].protocol \in {kBooleanGmw, kBmr}

\* kBoolean for BooleanGmw and Bmr shares, kArithmetic for the others
GetCircuitType(s) == IF IsBoolean(s) THEN "kBoolean" ELSE "kArithmetic"

BitLength(s) == GetBitLength(St, s)

\* the state after a call op(args) with outcome r; param: the template or
\* non-share argument of the call, rs: the wrappers returned
Return(op, args, param, r, rs) ==
  /\ gates' = r.st.gates
  /\ nid' = r.st.nid
  /\ shares' = r.st.shares
  /\ wires' = r.st.wires
  /\ log' = r.st.log
  /\ held' = IF r.err = NoError THEN held \o rs ELSE held
  /\ calls' = calls + 1
  /\ \E e \in Outcomes(r.err) :
       last' = [op |-> op, args |-> args, param |-> param, before |-> Len(gates),
                err |-> e, res |-> IF r.err = NoError THEN rs ELSE <<>>]

Result(r) == IF r.err = NoError THEN <<r.res>> ELSE <<>>

\* input sharing: a new share of protocol p and n bits over fresh input
\* wires (no producing gate), boolean wires with the values v
InputShare(st, p, n, v) ==
  LET first == Len(st.wires)
      neww == IF p \in {kBooleanGmw, kBmr}
                THEN [i \in 1..n |-> [gate |-> 0, bits |-> 1, val |-> v[i]]]
                ELSE << [gate |-> 0, bits |-> n, val |-> -1] >>
  IN  [st EXCEPT !.wires = @ \o neww,
                 !.shares = Append(@, [protocol |-> p,
                                       T |-> IF p \in {kBooleanGmw, kBmr} THEN 0 ELSE n,
                                       wires |-> [i \in 1..Len(neww) |-> first + i]])]

RECURSIVE InputShares(_, _)
InputShares(st, ins) ==
  IF ins = <<>> THEN st
  ELSE InputShares(InputShare(st, Head(ins).protocol, Head(ins).bits, Head(ins).val),
                   Tail(ins))

Empty == [gates |-> <<>>, nid |-> 1, shares |-> <<>>, wires |-> <<>>, log |-> <<>>,
          leftFirst |-> TRUE]

Pattern(n) == [i \in 1..n |-> i % 2]

I(p, n) == [protocol |-> p, bits |-> n, val |-> Pattern(n)]

\* the shares the caller starts from: a one-bit selector with two branches in
\* each protocol, mixed protocols, a public constant, supported and
\* unsupported ring widths
InputScenarios ==
  { << I(kBooleanGmw, 1), I(kBooleanGmw, 3), I(kBooleanGmw, 3) >>,
    << I(kBmr, 1), I(kBmr, 3), I(kBmr, 3) >>,
    << I(kArithmeticGmw, 1), I(kArithmeticGmw, 8), I(kArithmeticGmw, 8) >>,
    << I(kArithmeticGmw, 8), I(kConstant, 8) >>,
    << I(kBooleanGmw, 8), I(kBmr, 8) >>,
    << I(kArithmeticGmw, 3), I(kBmr, 3) >>,
    << I(kArithmeticGmw, 16), I(kBooleanGmw, 2) >> }

InitWith(ins) ==
  LET st == InputShares(Empty, ins) IN
  /\ gates = <<>>
  /\ nid = 1
  /\ shares = st.shares
  /\ wires = st.wires
  /\ log = <<>>
  /\ held = [i \in 1..Len(ins) |-> i]
  /\ calls = 0

Held == Range(held)

CallNot ==
  /\ CanCall
  /\ \E a \in Held :
    /\ shares[a].protocol \in Protocols
    /\ \E r \in {OperatorNot(St, a)} :
         Return("~", <<a>>, "", r, Result(r))

\* assert(share_->GetProtocol() == other->GetProtocol());
\* assert(share_->GetBitLength() == other->GetBitLength());
SameKind(a, b) ==
  /\ shares[a].protocol \in Protocols
  /\ shares[a].protocol = shares[b].protocol
  /\ BitLength(a) = BitLength(b)

CallXor ==
  /\ CanCall
  /\ \E a \in Held, b \in Held :
    /\ SameKind(a, b)
    /\ \E r \in {OperatorXor(St, a, b)} :
         Return("^", <<a, b>>, "", r, Result(r))

CallAnd ==
  /\ CanCall
  /\ \E a \in Held, b \in Held :
    /\ SameKind(a, b)
    /\ \E r \in {OperatorAnd(St, a, b)} :
         Return("&", <<a, b>>, "", r, Result(r))

CallOr ==
  /\ CanCall
  /\ \E a \in Held, b \in Held :
    /\ SameKind(a, b)
    /\ \E leftFirst \in BOOLEAN :
         \E r \in {OperatorOr(StOrder(leftFirst), a, b)} :
           Return("|", <<a, b>>, "", r, Result(r))

\* assert(share_->GetCircuitType() == other->GetCircuitType());
\* assert(share_->GetBitLength() == other->GetBitLength());
\* and the operands a width specialization is given are what it casts them to
SameCircuit(a, b) ==
  /\ GetCircuitType(a) = GetCircuitType(b)
  /\ BitLength(a) = BitLength(b)

CallPlus ==
  /\ CanCall
  /\ \E a \in Held, b \in Held :
    /\ SameCircuit(a, b)
    /\ \E r \in {OperatorPlus(St, a, b)} :
         Return("+", <<a, b>>, "", r, Result(r))

CallMinus ==
  /\ CanCall
  /\ \E a \in Held, b \in Held :
    /\ SameCircuit(a, b)
    /\ \E r \in {OperatorMinus(St, a, b)} :
         Return("-", <<a, b>>, "", r, Result(r))

CallTimes ==
  /\ CanCall
  /\ \E a \in Held, b \in Held :
    /\ SameCircuit(a, b)
    /\ \E r \in {OperatorTimes(St, a, b)} :
         Return("*", <<a, b>>, "", r, Result(r))

CallEq ==
  /\ CanCall
  /\ \E a \in Held, b \in Held :
    /\ SameKind(a, b)
    /\ \E r \in {OperatorEq(St, a, b)} :
         Return("==", <<a, b>>, "", r, Result(r))

CallMux ==
  /\ CanCall
  /\ \E s \in Held, a \in Held, b \in Held :
    /\ shares[s].protocol \in Protocols
    /\ shares[s].protocol = shares[a].protocol
    /\ shares[s].protocol = shares[b].protocol
    /\ BitLength(a) = BitLength(b)
    /\ BitLength(s) = 1
    /\ \E r \in {Mux(St, s, a, b)} :
         Return("Mux", <<s, a, b>>, "", r, Result(r))

CallConvert ==
  /\ CanCall
  /\ \E a \in Held, P \in Protocols :
    /\ shares[a].protocol \in Protocols
    /\ \E r \in {Convert(St, P, a)} :
         Return("Convert", <<a>>, P, r, Result(r))

CallEvaluate ==
  /\ CanCall
  /\ \E a \in Held, algorithm \in Algorithms :
    /\ shares[a].protocol \in Protocols
    /\ algorithm.number_of_gates + NumberOfInputWires(algorithm) = algorithm.number_of_wires
    /\ \E leftFirst \in BOOLEAN :
         \E r \in {Evaluate(StOrder(leftFirst), a, algorithm)} :
           Return("Evaluate", <<a>>, algorithm, r, Result(r))

Owners == {0, 1}

CallOut ==
  /\ CanCall
  /\ \E a \in Held, output_owner \in Owners :
       \E r \in {Out(St, a, output_owner)} :
         Return("Out", <<a>>, output_owner, r, Result(r))

\* the sequences of at most two held wrappers
HeldSeqs == {<<>>} \cup {<<a>> : a \in Held} \cup {<<a, b>> : a \in Held, b \in Held}

CallJoin ==
  /\ CanCall
  /\ \E ss \in HeldSeqs :
       \E r \in {Join(St, ss)} :
         Return("Join", ss, "", r, Result(r))

NoCall == [op |-> "", args |-> <<>>, param |-> "", before |-> 0, err |-> NoError,
           res |-> <<>>]

Init ==
  /\ \E ins \in InputScenarios : InitWith(ins)
  /\ last = NoCall

Next ==
  \/ CallNot
  \/ CallXor
  \/ CallAnd
  \/ CallOr
  \/ CallPlus
  \/ CallMinus
  \/ CallTimes
  \/ CallEq
  \/ CallMux
  \/ CallConvert
  \/ CallEvaluate
  \/ CallOut
  \/ CallJoin

Spec == Init /\ [][Next]_vars

\* ------------------------------------------------ equality on all values
\* every bit vector of length n
BitVectors(n) == [1..n -> {0, 1}]

InitEq ==
  /\ \E p \in {kBooleanGmw, kBmr}, n \in 1..MaxEqBits :
       \E va \in BitVectors(n), vb \in BitVectors(n) :
         InitWith(<< [protocol |-> p, bits |-> n, val |-> va],
                     [protocol |-> p, bits |-> n, val |-> vb] >>)
  /\ last = NoCall

\* held[1] == held[2]
EqInputs ==
  /\ CanCall
  /\ calls = 0
  /\ \E r \in {OperatorEq(St, held[1], held[2])} :
       Return("==", <<held[1], held[2]>>, "", r, Result(r))

NextEq == EqInputs

SpecEq == InitEq /\ [][NextEq]_vars

\* ------------------------------------------------ selection on all values
InitMux ==
  /\ \E p \in {kBooleanGmw, kBmr}, n \in 1..MaxMuxBits :
       \E vs \in BitVectors(1), va \in BitVectors(n), vb \in BitVectors(n) :
         InitWith(<< [protocol |-> p, bits |-> 1, val |-> vs],
                     [protocol |-> p, bits |-> n, val |-> va],
                     [protocol |-> p, bits |-> n, val |-> vb] >>)
  /\ last = NoCall

\* held[1].Mux(held[2], held[3])
MuxInputs ==
  /\ CanCall
  /\ calls = 0
  /\ \E r \in {Mux(St, held[1], held[2], held[3])} :
       Return("Mux", <<held[1], held[2], held[3]>>, "", r, Result(r))

NextMux == MuxInputs

SpecMux == InitMux /\ [][NextMux]_vars

\* ------------------------------------------------ the width dispatch
\* the ring widths with a specialization, and bit lengths without one
DispatchBitLengths == {7, 8, 16, 24, 32, 64, 128}

InitDispatch ==
  /\ \E n \in DispatchBitLengths :
       \E ins \in { << I(kArithmeticGmw, n), I(kArithmeticGmw, n) >>,
                     << I(kArithmeticGmw, n), I(kConstant, n) >>,
                     << I(kBooleanGmw, n), I(kBmr, n) >> } :
         InitWith(ins)
  /\ last = NoCall

NextDispatch ==
  \/ CallPlus
  \/ CallMinus
  \/ CallTimes
  \/ CallConvert
  \/ CallOut
  \/ CallJoin

SpecDispatch == InitDispatch /\ [][NextDispatch]_vars

\* ------------------------------------------------ Split and Join
MaxSplitBits == 3

CallSplit ==
  /\ CanCall
  /\ \E a \in Held :
       \E r \in {Split(St, a)} :
         Return("Split", <<a>>, "", r, r.res)

\* Join of the vector the last Split returned
CallJoinParts ==
  /\ CanCall
  /\ last.op = "Split"
  /\ \E r \in {Join(St, last.res)} :
       Return("Join", last.res, "", r, Result(r))

\* Join of a vector of three held wrappers
CallJoinThree ==
  /\ CanCall
  /\ \E a \in Held, b \in Held, c \in Held :
       \E r \in {Join(St, <<a, b, c>>)} :
         Return("Join", <<a, b, c>>, "", r, Result(r))

\* a boolean share and a second share of any protocol
InitJoin ==
  /\ \E p \in {kBooleanGmw, kBmr}, n \in 1..MaxSplitBits, q \in Protocols :
       InitWith(<< I(p, n), IF q = kArithmeticGmw THEN I(q, 8) ELSE I(q, 2) >>)
  /\ last = NoCall

NextJoin ==
  \/ CallSplit
  \/ CallJoin
  \/ CallJoinParts
  \/ CallJoinThree

SpecJoin == InitJoin /\ [][NextJoin]_vars

\* ------------------------------------------------ circuit descriptions
MaxEvalBits == 3

\* a gate record with a tag outside kXor, kAnd, kOr, kInv, first and second
AlgOther ==
  [number_of_input_wires_parent_a |-> 1, number_of_input_wires_parent_b |-> <<1>>,
   number_of_output_wires |-> 1, number_of_wires |-> 3, number_of_gates |-> 1,
   gates |-> << [type |-> "kOther", parent_a |-> 0, parent_b |-> <<1>>, output_wire |-> 2] >>]

AlgXorOther ==
  [number_of_input_wires_parent_a |-> 1, number_of_input_wires_parent_b |-> <<1>>,
   number_of_output_wires |-> 1, number_of_wires |-> 4, number_of_gates |-> 2,
   gates |-> << [type |-> "kXor", parent_a |-> 0, parent_b |-> <<1>>, output_wire |-> 2],
                [type |-> "kOther", parent_a |-> 2, parent_b |-> <<0>>, output_wire |-> 3] >>]

AnyAlgorithms == Algorithms \cup {AlgOther, AlgXorOther}

CallEvaluateAny ==
  /\ CanCall
  /\ \E a \in Held, algorithm \in AnyAlgorithms :
    /\ shares[a].protocol \in Protocols
    /\ algorithm.number_of_gates + NumberOfInputWires(algorithm) = algorithm.number_of_wires
    /\ \E leftFirst \in BOOLEAN :
         \E r \in {Evaluate(StOrder(leftFirst), a, algorithm)} :
           Return("Evaluate", <<a>>, algorithm, r, Result(r))

\* operator== on operands of any two bit lengths: the length checks log, and
\* operator^ then asserts share_->GetBitLength() == other->GetBitLength()
OperatorEqAsserting(st, a, b) ==
  IF GetBitLength(st, a) # GetBitLength(st, b)
    THEN Throw(EqLogged(st, a, b), ErrFailedAssert)
    ELSE OperatorEq(st, a, b)

CallEqAny ==
  /\ CanCall
  /\ \E a \in Held, b \in Held :
    /\ shares[a].protocol \in {kBooleanGmw, kBmr}
    /\ shares[a].protocol = shares[b].protocol
    /\ \E r \in {OperatorEqAsserting(St, a, b)} :
         Return("==", <<a, b>>, "", r, Result(r))

\* one boolean share, every value
InitEvaluate ==
  /\ \E p \in {kBooleanGmw, kBmr}, n \in 1..MaxEvalBits :
       \E v \in BitVectors(n) :
         InitWith(<< [protocol |-> p, bits |-> n, val |-> v] >>)
  /\ last = NoCall

NextEvaluate ==
  \/ CallEvaluateAny
  \/ CallConvert
  \/ CallEqAny

SpecEvaluate == InitEvaluate /\ [][NextEvaluate]_vars

\* ------------------------------------------------ every operator
\* boolean shares for the bitwise operators, Mux, ==, Evaluate, Split and
\* Join; a ring element and a public constant for the arithmetic ones
FrameScenarios ==
  { << I(kBmr, 1), I(kBmr, 2), I(kBmr, 2) >>,
    << I(kBooleanGmw, 1), I(kBooleanGmw, 3) >>,
    << I(kArithmeticGmw, 8), I(kConstant, 8) >> }

InitFrame ==
  /\ \E ins \in FrameScenarios : InitWith(ins)
  /\ last = NoCall

NextFrame ==
  \/ Next
  \/ CallSplit

SpecFrame == InitFrame /\ [][NextFrame]_vars

\* ------------------------------------------------ OR on all values
MaxOrBits == 2

InitOr ==
  /\ \E p \in {kBooleanGmw, kBmr}, n \in 1..MaxOrBits :
       \E va \in BitVectors(n), vb \in BitVectors(n) :
         InitWith(<< [protocol |-> p, bits |-> n, val |-> va],
                     [protocol |-> p, bits |-> n, val |-> vb] >>)
  /\ last = NoCall

NextOr == CallOr

SpecOr == InitOr /\ [][NextOr]_vars

\* ------------------------------------------------ the loop of operator==
MaxLoopBits == 15
MaxIterations == 4

\* the result of the loop so far
LoopResult == held[Len(held)]

InitEqLoop ==
  /\ \E p \in {kBooleanGmw, kBmr}, n \in 2..MaxLoopBits :
       /\ ~IsPowerOfTwo(n)
       /\ \E vb \in {Pattern(n), [Pattern(n) EXCEPT ![n] = 1 - @]} :
            InitWith(<< [protocol |-> p, bits |-> n, val |-> Pattern(n)],
                        [protocol |-> p, bits |-> n, val |-> vb] >>)
  /\ last = NoCall

\* auto result = ~(*this ^ other)
EqXnor ==
  /\ calls = 0
  /\ \E r \in {Xnor(St, held[1], held[2])} :
       Return("~(a ^ b)", <<held[1], held[2]>>, <<>>, r, Result(r))

\* one pass of while (result->GetBitLength() != 1)
EqLoopIteration ==
  /\ last.err = NoError
  /\ calls \in 1..MaxIterations
  /\ BitLength(LoopResult) # 1
  /\ \E r \in {EqIteration(St, LoopResult)} :
       Return("EqIteration", <<LoopResult>>,
              IF r.err = NoError THEN r.q ELSE <<>>, r, Result(r))

NextEqLoop ==
  \/ EqXnor
  \/ EqLoopIteration

SpecEqLoop == InitEqLoop /\ [][NextEqLoop]_vars /\ WF_vars(NextEqLoop)

\* ------------------------------------------------ the gate loop of Evaluate
MaxGates == 2

GateTypes == {"kXor", "kAnd", "kOr", "kInv"}

\* the gate records that may stand at position gate_i of a description with n
\* input wires: output_wire = n + gate_i, parents below the output wire
GateRecords(n, gate_i) ==
  { [type |-> t, parent_a |-> a, parent_b |-> IF t = "kInv" THEN <<>> ELSE <<b>>,
     output_wire |-> n + gate_i] :
      t \in GateTypes, a \in 0..(n + gate_i - 1), b \in {0, n + gate_i - 1} }

\* descriptions of g gates over n input wires that satisfy the data-model
\* invariant
Descriptions(n, g) ==
  { [number_of_input_wires_parent_a |-> n, number_of_input_wires_parent_b |-> <<>>,
     number_of_output_wires |-> 1, number_of_wires |-> n + g, number_of_gates |-> g,
     gates |-> gs] :
      gs \in { s \in [1..g -> UNION {GateRecords(n, i) : i \in 0..(g - 1)}] :
                 \A i \in 1..g : s[i].output_wire = n + i - 1 } }

\* gate_i: the number of gate records the loop has processed
GatesProcessed == calls - 1

\* a step inside a call: the state it leaves and, in res, the local value
\* (the slots) the next step goes on with
Proceed(op, args, param, r, local) ==
  /\ gates' = r.st.gates
  /\ nid' = r.st.nid
  /\ shares' = r.st.shares
  /\ wires' = r.st.wires
  /\ log' = r.st.log
  /\ held' = held
  /\ calls' = calls + 1
  /\ \E e \in Outcomes(r.err) :
       last' = [op |-> op, args |-> args, param |-> param, before |-> Len(gates),
                err |-> e, res |-> IF r.err = NoError THEN local ELSE <<>>]

InitEvaluateLoop ==
  /\ \E p \in {kBooleanGmw, kBmr}, n \in 1..MaxEvalBits :
       InitWith(<< [protocol |-> p, bits |-> n, val |-> Pattern(n)] >>)
  /\ last = NoCall

\* Evaluate up to the resize of the slots
EvaluateSplit ==
  /\ calls = 0
  /\ \E g \in 1..MaxGates : \E algorithm \in Descriptions(BitLength(held[1]), g) :
       \E r \in {Split(EvaluateLogged(St, held[1], algorithm), held[1])} :
         Proceed("Evaluate: Split", <<held[1]>>, algorithm, r,
                 InputSlots(algorithm, r.res))

\* one pass of the gate loop
EvaluateGateStep ==
  /\ last.op \in {"Evaluate: Split", "Evaluate: gate"}
  /\ last.err = NoError
  /\ NumberOfInputWires(last.param) + GatesProcessed < last.param.number_of_wires
  /\ \E leftFirst \in BOOLEAN :
       \E r \in {EvaluateGate(StOrder(leftFirst), last.param, last.res, GatesProcessed)} :
         Proceed("Evaluate: gate", last.args, last.param, r,
                 IF r.err = NoError THEN r.res ELSE <<>>)

\* the output loop and the final Join
EvaluateReturn ==
  /\ last.op \in {"Evaluate: Split", "Evaluate: gate"}
  /\ last.err = NoError
  /\ NumberOfInputWires(last.param) + GatesProcessed >= last.param.number_of_wires
  /\ \E r \in {EvaluateOutput(St, last.param, last.res)} :
       Return("Evaluate: Join", last.args, last.param, r, Result(r))

NextEvaluateLoop ==
  \/ EvaluateSplit
  \/ EvaluateGateStep
  \/ EvaluateReturn

SpecEvaluateLoop == InitEvaluateLoop /\ [][NextEvaluateLoop]_vars

\* ------------------------------------------------ panda: 32-bit integers
\* std::uint32_t as two 16-bit limbs
Limb == 65536

U(hi, lo) == [hi |-> hi, lo |-> lo]

\* uint32_t addition, modulo 2^32
AddU(a, b) ==
  U((a.hi + b.hi + (a.lo + b.lo) \div Limb) % Limb, (a.lo + b.lo) % Limb)

\* a > b on unsigned integers
GtU(a, b) == a.hi > b.hi \/ (a.hi = b.hi /\ a.lo > b.lo)

\* std::numeric_limits<uint32_t>::max() / 4
zeroMaskValue == U(16383, 65535)

smallerKMaskValue == U(0, 0)

\* party->In(value, partyIdx): the shared integer of one party's input;
\* owners counts, for every party, how often its input entered the value
In(value, partyIdx, numberOfParties) ==
  [val |-> value,
   owners |-> [i \in 1..numberOfParties |-> IF i = partyIdx THEN 1 ELSE 0]]

\* a + b on SecureUnsignedInteger
SecureUnsignedIntegerPlus(a, b) ==
  [val |-> AddU(a.val, b.val),
   owners |-> [i \in DOMAIN a.owners |-> a.owners[i] + b.owners[i]]]

\* s.Mux(a, b) on plain values
MuxU(s, a, b) == IF s THEN a ELSE b

\* ------------------------------------------------ panda: tree addition
\* the for loop dropping an element that has no partner
RECURSIVE TreeFor_DropLeftover(_, _, _)
TreeFor_DropLeftover(single_input, i, j) ==
  IF i >= Len(single_input) THEN SubSeq(single_input, 1, j)
  ELSE IF i + 1 >= Len(single_input)
    THEN TreeFor_DropLeftover(single_input, i + 1, j)
    ELSE TreeFor_DropLeftover(
           [single_input EXCEPT ![j + 1] =
              SecureUnsignedIntegerPlus(single_input[i + 2], single_input[i + 1])],
           i + 2, j + 1)

\* for (unsigned i = 0; i < single_input.size();) ... single_input.resize(j),
\* in place; i and j count from 0
RECURSIVE TreeFor(_, _, _)
TreeFor(single_input, i, j) ==
  IF i >= Len(single_input) THEN SubSeq(single_input, 1, j)
  ELSE IF i + 1 >= Len(single_input)
    THEN TreeFor([single_input EXCEPT ![j + 1] = single_input[i + 1]], i + 1, j + 1)
    ELSE TreeFor([single_input EXCEPT ![j + 1] =
                    SecureUnsignedIntegerPlus(single_input[i + 2], single_input[i + 1])],
                 i + 2, j + 1)

\* while (single_input.size() > 1)
RECURSIVE TreeWhile(_)
TreeWhile(single_input) ==
  IF Len(single_input) > 1 THEN TreeWhile(TreeFor(single_input, 0, 0))
  ELSE single_input

\* ------------------------------------------------ panda: the protocols
\* sums[j] = inputValues[0][j]; for (i = 1; ...) sums[j] += inputValues[i][j]
RECURSIVE BasicSum(_, _, _, _)
BasicSum(inputValues, j, i, sum) ==
  IF i > Len(inputValues) THEN sum
  ELSE BasicSum(inputValues, j, i + 1, SecureUnsignedIntegerPlus(sum, inputValues[i][j]))

\* comparison1 = sum == 0; comparisons[j] = comparison1.Mux(zeroMask, sum);
\* comparison2 = k > comparisons[j]; comparison2.Mux(smallerKMask, comparisons[j])
BasicComparison(sum, kValue) ==
  MuxU(GtU(kValue, MuxU(sum = U(0, 0), zeroMaskValue, sum)),
       smallerKMaskValue,
       MuxU(sum = U(0, 0), zeroMaskValue, sum))

\* inputValues[i][j] is the shared input j of party i
EvaluateProtocolBasic(inputValues, kValue) ==
  [st |-> 0,
   res |-> [j \in 1..Len(inputValues[1]) |->
              BasicComparison(BasicSum(inputValues, j, 2, inputValues[1][j]).val, kValue)],
   err |-> NoError]

\* for (subgroupIdx = 0; subgroupIdx < numberOfGroups; ++subgroupIdx): the
\* subgroup indices of a group the sum loop visits, counted from 1
SubgroupIndices(values, groupIdx) == 1..Len(values)

\* the sums of the subgroups of one group
SubgroupSums(inputValues, groupIdx) ==
  [subgroupIdx \in SubgroupIndices(inputValues, groupIdx) |->
     TreeWhile(inputValues[groupIdx][subgroupIdx])[1].val]

\* subgroupSums[s] = (sum == 0).Mux(zeroMask, sum)
ZeroMasked(sums) ==
  [subgroupIdx \in DOMAIN sums |->
     MuxU(sums[subgroupIdx] = U(0, 0), zeroMaskValue, sums[subgroupIdx])]

\* subgroupContainsSmallerK |= secureK > subgroupSums[s]
SubgroupContainsSmallerK(masked, kValue) ==
  \E subgroupIdx \in DOMAIN masked : GtU(kValue, masked[subgroupIdx])

\* subgroupContainsSmallerK.Mux(smallerKMask, subgroupSums[s])
ResultGroup(masked, kValue) ==
  [subgroupIdx \in DOMAIN masked |->
     MuxU(SubgroupContainsSmallerK(masked, kValue), smallerKMaskValue,
          masked[subgroupIdx])]

\* values[groupIdx][subgroupIdx][partyIdx] is one party's value of a subgroup.
\* The sum loop runs subgroupIdx up to numberOfGroups: a group with fewer
\* subgroups is read and written past its end, a group with more keeps
\* default-constructed sums whose null share Convert dereferences
EvaluateProtocolArithmeticThenBoolWithGroups(inputValues, kValue) ==
  IF \E groupIdx \in DOMAIN inputValues :
       Len(inputValues[groupIdx]) < Len(inputValues)
    THEN [st |-> 0, res |-> <<>>, err |-> ErrOutOfBounds]
  ELSE IF \E groupIdx \in DOMAIN inputValues :
       Len(inputValues[groupIdx]) > Len(inputValues)
    THEN [st |-> 0, res |-> <<>>, err |-> ErrNullDereference]
  ELSE
    [st |-> 0,
     res |-> [groupIdx \in DOMAIN inputValues |->
                ResultGroup(ZeroMasked(SubgroupSums(inputValues, groupIdx)), kValue)],
     err |-> NoError]

\* ------------------------------------------------ panda: the callers
MaxParties == 3
MaxInputs == 2
MaxGroups == 2

zero32 == U(0, 0)
one32 == U(0, 1)
max32 == U(65535, 65535)

\* the values of the parties for one input: sums 0, 1, numberOfParties,
\* zeroMaskValue(), and a sum that wraps around
PartyValues(numberOfParties) ==
  { [i \in 1..numberOfParties |-> zero32],
    [i \in 1..numberOfParties |-> IF i = 1 THEN one32 ELSE zero32],
    [i \in 1..numberOfParties |-> one32],
    [i \in 1..numberOfParties |-> IF i = 1 THEN zeroMaskValue ELSE zero32],
    [i \in 1..numberOfParties |-> IF i = 1 THEN max32 ELSE one32] }

GroupPartyValues(numberOfParties) ==
  { [i \in 1..numberOfParties |-> zero32],
    [i \in 1..numberOfParties |-> IF i = 1 THEN one32 ELSE zero32],
    [i \in 1..numberOfParties |-> one32] }

KValues == {U(0, 1), U(0, 2), U(0, 3), U(16384, 0)}

\* party->In of every value of a vector of party values
Shared(partyValues) ==
  [i \in DOMAIN partyValues |-> In(partyValues[i], i, Len(partyValues))]

CallBasic ==
  /\ calls = 0
  /\ \E numberOfParties \in 2..MaxParties, numberOfInputs \in 1..MaxInputs, kValue \in KValues :
       \E values \in [1..numberOfInputs -> PartyValues(numberOfParties)] :
         \E inputValues \in {[i \in 1..numberOfParties |->
                                [j \in 1..numberOfInputs |-> Shared(values[j])[i]]]} :
           \E r \in {EvaluateProtocolBasic(inputValues, kValue)} :
             \E e \in Outcomes(r.err) :
               last' = [op |-> "EvaluateProtocolBasic", args |-> inputValues,
                        param |-> kValue, before |-> 0, err |-> e, res |-> r.res]
  /\ calls' = 1
  /\ UNCHANGED <<gates, nid, shares, wires, log, held>>

CallWithGroups ==
  /\ calls = 0
  /\ \E numberOfParties \in 2..MaxParties, numberOfGroups \in 1..MaxGroups, kValue \in KValues :
       \E values \in [1..numberOfGroups ->
                        UNION {[1..n -> GroupPartyValues(numberOfParties)] :
                                 n \in 1..MaxGroups}] :
         \E inputValues \in {[groupIdx \in 1..numberOfGroups |->
                                [subgroupIdx \in 1..Len(values[groupIdx]) |->
                                   Shared(values[groupIdx][subgroupIdx])]]} :
           \E r \in {EvaluateProtocolArithmeticThenBoolWithGroups(inputValues, kValue)} :
             \E e \in Outcomes(r.err) :
               last' = [op |-> "EvaluateProtocolArithmeticThenBoolWithGroups",
                        args |-> inputValues, param |-> kValue, before |-> 0,
                        err |-> e, res |-> r.res]
  /\ calls' = 1
  /\ UNCHANGED <<gates, nid, shares, wires, log, held>>

InitPanda ==
  /\ InitWith(<<>>)
  /\ last = NoCall

NextPanda ==
  \/ CallBasic
  \/ CallWithGroups

SpecPanda == InitPanda /\ [][NextPanda]_vars

\* ------------------------------------------------ panda: the tree, round by round
MaxTreeParties == 7

\* std::vector<SecureUnsignedInteger> single_input = inputValues[k]
TreeInput ==
  /\ calls = 0
  /\ \E numberOfParties \in 1..MaxTreeParties :
       \E values \in [1..numberOfParties -> {one32, max32}] :
         last' = [op |-> "single_input = inputValues[k]", args |-> Shared(values),
                  param |-> "", before |-> 0, err |-> NoError, res |-> Shared(values)]
  /\ calls' = 1
  /\ UNCHANGED <<gates, nid, shares, wires, log, held>>

\* one pass of while (single_input.size() > 1)
TreeRound ==
  /\ last.op \in {"single_input = inputValues[k]", "while (single_input.size() > 1)"}
  /\ Len(last.res) > 1
  /\ last' = [last EXCEPT !.op = "while (single_input.size() > 1)",
                          !.res = TreeFor(last.res, 0, 0)]
  /\ UNCHANGED <<gates, nid, shares, wires, log, held, calls>>

\* sums[k] = single_input[0]
TreeSum ==
  /\ last.op \in {"single_input = inputValues[k]", "while (single_input.size() > 1)"}
  /\ Len(last.res) = 1
  /\ last' = [last EXCEPT !.op = "sums[k] = single_input[0]", !.res = <<last.res[1]>>]
  /\ UNCHANGED <<gates, nid, shares, wires, log, held, calls>>

InitTree ==
  /\ InitWith(<<>>)
  /\ last = NoCall

NextTree ==
  \/ TreeInput
  \/ TreeRound
  \/ TreeSum

SpecTree == InitTree /\ [][NextTree]_vars /\ WF_vars(NextTree)

\* ------------------------------------------------ properties
Protocol(s) == shares[s].protocol

\* the gates the last call registered
NewGates == SubSeq(gates, last.before + 1, Len(gates))

NoGateRegistered == Len(gates) = last.before

Kinds(gs) == [i \in DOMAIN gs |-> gs[i].kind]

\* the positions in the register of the gate with a given id
PositionsOf(id) == {j \in DOMAIN gates : gates[j].id = id}

\* the wires a gate reads
InputWires(g) == Range(Flatten(g.in))

\* C1: the register's gate list is in dependency order: every gate that
\* produces an input wire of a registered gate g is registered before g
C1_DependencyOrder ==
  \A i \in DOMAIN gates : \A w \in InputWires(gates[i]) :
    wires[w].gate # 0 => \E j \in PositionsOf(wires[w].gate) : j < i

\* a second call whose gate reads the output of a gate of the first call,
\* and which registered several gates itself
C1_Witness ==
  /\ calls = 2
  /\ last.op \in {"|", "Mux", "==", "Evaluate", "Convert"}
  /\ last.err = NoError
  /\ Len(NewGates) >= 2
  /\ \E i \in DOMAIN NewGates : \E w \in InputWires(NewGates[i]) :
       \E j \in 1..last.before : gates[j].id = wires[w].gate

\* C2: NOT, XOR, AND, OR on an ArithmeticGmw receiver throw "Boolean
\* primitive operations are not supported" and register no gate
C2_BooleanOnArithmetic ==
  (last.op \in {"~", "^", "&", "|"} /\ Protocol(last.args[1]) = kArithmeticGmw)
    => (last.err = ErrBooleanOnArithmetic /\ NoGateRegistered /\ last.res = <<>>)

C2_Witness ==
  /\ last.op = "^"
  /\ Protocol(last.args[1]) = kArithmeticGmw
  /\ last.args[1] # last.args[2]
  /\ last.err = ErrBooleanOnArithmetic

\* C3: ADD, SUB, MUL and squaring on operands neither of which is
\* ArithmeticGmw throw "Arithmetic primitive operations are only supported"
\* whatever the bit length, and register no gate
C3_ArithmeticOnly ==
  (/\ last.op \in {"+", "-", "*"}
   /\ Protocol(last.args[1]) # kArithmeticGmw
   /\ Protocol(last.args[2]) # kArithmeticGmw)
    => (last.err = ErrArithmeticOnly /\ NoGateRegistered /\ last.res = <<>>)

\* squaring a boolean share of an unsupported width
C3_Witness ==
  /\ last.op = "*"
  /\ last.args[1] = last.args[2]
  /\ Protocol(last.args[1]) = kBmr
  /\ BitLength(last.args[1]) = 3
  /\ last.err = ErrArithmeticOnly

\* the exceptions the width dispatch points throw
InvalidBitLength == {ErrBadCast, ErrInvalidBitlength, ErrUnknownRing, ErrJoinBitLength}

\* the call built gates of ring width T only, and exactly one if it returned
SpecializedTo(T) ==
  /\ last.err \notin InvalidBitLength
  /\ \A i \in DOMAIN NewGates : NewGates[i].width = T
  /\ last.err = NoError => (Len(NewGates) = 1 /\ BitLength(last.res[1]) = T)

\* C4: at every arithmetic dispatch point a bit length outside {8,16,32,64}
\* throws the dispatch point's exception, and a bit length inside the set
\* selects the specialization of that width
C4_WidthDispatch ==
  /\ (/\ last.op \in {"+", "-", "*"}
      /\ (Protocol(last.args[1]) = kArithmeticGmw \/ Protocol(last.args[2]) = kArithmeticGmw))
       => IF BitLength(last.args[1]) \in Widths
            THEN SpecializedTo(BitLength(last.args[1]))
            ELSE last.err = ErrBadCast /\ NoGateRegistered
  /\ (/\ last.op = "Convert"
      /\ last.param = kArithmeticGmw
      /\ Protocol(last.args[1]) = kBooleanGmw)
       => IF BitLength(last.args[1]) \in Widths
            THEN SpecializedTo(BitLength(last.args[1]))
            ELSE last.err = ErrInvalidBitlength /\ NoGateRegistered
  /\ (last.op = "Out" /\ Protocol(last.args[1]) = kArithmeticGmw)
       => IF BitLength(last.args[1]) \in Widths
            THEN SpecializedTo(BitLength(last.args[1]))
            ELSE last.err = ErrUnknownRing /\ NoGateRegistered
  /\ (/\ last.op = "Join"
      /\ last.args # <<>>
      /\ \A i \in DOMAIN last.args : Protocol(last.args[i]) = kArithmeticGmw)
       => IF BitLength(last.args[1]) \in Widths
            THEN /\ last.err = NoError
                 /\ shares[last.res[1]].T = BitLength(last.args[1])
                 /\ NoGateRegistered
            ELSE last.err = ErrJoinBitLength /\ NoGateRegistered

\* an addition of two 24 bit arithmetic shares
C4_Witness ==
  /\ last.op = "+"
  /\ Protocol(last.args[1]) = kArithmeticGmw
  /\ last.args[1] # last.args[2]
  /\ BitLength(last.args[1]) = 24
  /\ last.err = ErrBadCast

\* C5: a == b on boolean shares of n bits returns a share of one bit whose
\* value is 1 exactly if a and b agree in every bit
C5_Equality ==
  (last.op = "==" /\ Protocol(last.args[1]) \in {kBooleanGmw, kBmr})
    => /\ last.err = NoError
       /\ Len(last.res) = 1
       /\ BitLength(last.res[1]) = 1
       /\ Protocol(last.res[1]) = Protocol(last.args[1])
       /\ Values(St, last.res[1]) =
            << Bit(Values(St, last.args[1]) = Values(St, last.args[2])) >>

\* two equal values of 7 bits (segments of 1, 2 and 4 bits, then 1 and 2)
C5_Witness ==
  /\ last.op = "=="
  /\ Protocol(last.args[1]) = kBmr
  /\ BitLength(last.args[1]) = 7
  /\ Values(St, last.args[1]) = Values(St, last.args[2])
  /\ last.args[1] # last.args[2]
  /\ Values(St, last.res[1]) = <<1>>

C7_MuxArithmetic ==
  (last.op = "Mux" /\ Protocol(last.args[1]) = kArithmeticGmw)
    => (last.err = ErrMuxNotImplemented /\ NoGateRegistered /\ last.res = <<>>)

C7_Witness ==
  /\ last.op = "Mux"
  /\ Protocol(last.args[1]) = kArithmeticGmw
  /\ BitLength(last.args[2]) = 8
  /\ last.args[2] # last.args[3]
  /\ last.err = ErrMuxNotImplemented

\* C8: Convert<P> on a share of protocol P throws "Trying to convert share to
\* MpcProtocol it is already in" and registers no gate
C8_ConvertSame ==
  (last.op = "Convert" /\ Protocol(last.args[1]) = last.param)
    => (last.err = ErrSameProtocol /\ NoGateRegistered /\ last.res = <<>>)

C8_Witness ==
  /\ last.op = "Convert"
  /\ last.param = kArithmeticGmw
  /\ Protocol(last.args[1]) = kArithmeticGmw
  /\ last.err = ErrSameProtocol

\* the call returned a share of the target protocol and registered exactly
\* the gates of these kinds, each reading the output of the one before
Converted(kinds) ==
  /\ last.err = NoError
  /\ Kinds(NewGates) = kinds
  /\ NewGates[1].in = << GetWires(St, last.args[1]) >>
  /\ \A i \in 2..Len(NewGates) : NewGates[i].in = << GetWires(St, NewGates[i - 1].out) >>
  /\ last.res = << NewGates[Len(NewGates)].out >>
  /\ Protocol(last.res[1]) = last.param

\* C9: Convert registers one gate for ArithmeticGmw -> Bmr, BooleanGmw -> Bmr,
\* Bmr -> BooleanGmw and (for a supported width) BooleanGmw -> ArithmeticGmw,
\* and two for ArithmeticGmw -> BooleanGmw (to Bmr, then to BooleanGmw); the
\* returned share has the target protocol
C9_ConvertGates ==
  last.op = "Convert" =>
    /\ (Protocol(last.args[1]) = kArithmeticGmw /\ last.param = kBmr)
         => Converted(<<"ArithmeticGmwToBmr">>)
    /\ (Protocol(last.args[1]) = kBooleanGmw /\ last.param = kBmr)
         => Converted(<<"BooleanGmwToBmr">>)
    /\ (Protocol(last.args[1]) = kBmr /\ last.param = kBooleanGmw)
         => Converted(<<"BmrToBooleanGmw">>)
    /\ (/\ Protocol(last.args[1]) = kBooleanGmw
        /\ last.param = kArithmeticGmw
        /\ BitLength(last.args[1]) \in Widths)
         => Converted(<<"GmwToArithmetic">>)
    /\ (Protocol(last.args[1]) = kArithmeticGmw /\ last.param = kBooleanGmw)
         => Converted(<<"ArithmeticGmwToBmr", "BmrToBooleanGmw">>)

C9_Witness ==
  /\ last.op = "Convert"
  /\ Protocol(last.args[1]) = kArithmeticGmw
  /\ last.param = kBooleanGmw
  /\ Len(NewGates) = 2
  /\ Protocol(last.res[1]) = kBooleanGmw

\* C10 as claimed: converting a Bmr share, to ArithmeticGmw as to
\* BooleanGmw, registers exactly one conversion gate
C10_OneHopFromBmr ==
  (/\ last.op = "Convert"
   /\ Protocol(last.args[1]) = kBmr
   /\ last.param \in {kArithmeticGmw, kBooleanGmw}
   /\ last.err = NoError)
    => Len(NewGates) = 1

\* C10 amended: converting a Bmr share to BooleanGmw registers one gate;
\* converting one of a supported width to ArithmeticGmw registers two, a
\* Bmr -> BooleanGmw gate and a BooleanGmw -> ArithmeticGmw gate reading it
C10_TwoHopsFromBmr ==
  (last.op = "Convert" /\ Protocol(last.args[1]) = kBmr) =>
    /\ last.param = kBooleanGmw => Converted(<<"BmrToBooleanGmw">>)
    /\ (last.param = kArithmeticGmw /\ BitLength(last.args[1]) \in Widths)
         => Converted(<<"BmrToBooleanGmw", "GmwToArithmetic">>)

C10_Witness ==
  /\ last.op = "Convert"
  /\ Protocol(last.args[1]) = kBmr
  /\ last.param = kArithmeticGmw
  /\ last.err = NoError
  /\ Kinds(NewGates) = <<"BmrToBooleanGmw", "GmwToArithmetic">>

\* C11: Out(owner) requests exactly one output operation of the share's
\* protocol (and ring width) with that owner for BooleanGmw and Bmr shares of
\* any bit length and ArithmeticGmw shares of 8, 16, 32 or 64 bits; for every
\* other share, a constant one included, it throws and requests none
C11_OutDispatch ==
  last.op = "Out" =>
    IF \/ Protocol(last.args[1]) \in {kBooleanGmw, kBmr}
       \/ (Protocol(last.args[1]) = kArithmeticGmw /\ BitLength(last.args[1]) \in Widths)
      THEN /\ last.err = NoError
           /\ Kinds(NewGates) = <<"Output">>
           /\ NewGates[1].protocol = Protocol(last.args[1])
           /\ NewGates[1].width = (IF Protocol(last.args[1]) = kArithmeticGmw
                                     THEN BitLength(last.args[1]) ELSE 0)
           /\ NewGates[1].output_owner = last.param
           /\ NewGates[1].in = << GetWires(St, last.args[1]) >>
           /\ last.res = << NewGates[1].out >>
      ELSE /\ last.err \in {ErrUnknownRing, ErrUnknownProtocol}
           /\ NoGateRegistered
           /\ last.res = <<>>

\* Out on a constant share
C11_Witness ==
  /\ last.op = "Out"
  /\ Protocol(last.args[1]) = kConstant
  /\ last.param = 1
  /\ last.err = ErrUnknownProtocol

\* the wrappers in ss hold the wires of x one by one, in x's order
IsSplitOf(ss, x) ==
  /\ Len(ss) = Len(GetWires(St, x))
  /\ \A i \in DOMAIN ss :
       /\ GetWires(St, ss[i]) = << GetWires(St, x)[i] >>
       /\ Protocol(ss[i]) = Protocol(x)

RECURSIVE SumBitLength(_)
SumBitLength(ss) == IF ss = <<>> THEN 0 ELSE BitLength(Head(ss)) + SumBitLength(Tail(ss))

\* C12: for a boolean share x of n wires Split returns n one-bit wrappers,
\* the i-th holding x's i-th wire; Join concatenates the wires of its inputs
\* in sequence order into a share whose bit length is the sum of theirs;
\* Join(Split(x)) has x's wires in x's order and x's protocol; neither
\* registers a gate
C12_SplitJoin ==
  /\ (last.op = "Split" /\ Protocol(last.args[1]) \in {kBooleanGmw, kBmr})
       => /\ last.err = NoError
          /\ IsSplitOf(last.res, last.args[1])
          /\ \A i \in DOMAIN last.res : BitLength(last.res[i]) = 1
          /\ NoGateRegistered
  /\ last.op = "Join" => NoGateRegistered
  /\ (/\ last.op = "Join"
      /\ last.err = NoError
      /\ Protocol(last.args[1]) \in {kBooleanGmw, kBmr})
       => /\ GetWires(St, last.res[1]) =
               Flatten([i \in DOMAIN last.args |-> GetWires(St, last.args[i])])
          /\ BitLength(last.res[1]) = SumBitLength(last.args)
          /\ Protocol(last.res[1]) = Protocol(last.args[1])
  /\ last.op = "Join" =>
       \A x \in DOMAIN shares :
         (Protocol(x) \in {kBooleanGmw, kBmr} /\ IsSplitOf(last.args, x))
           => /\ last.err = NoError
              /\ GetWires(St, last.res[1]) = GetWires(St, x)
              /\ Protocol(last.res[1]) = Protocol(x)

\* Join of the three parts Split returned for a share of three bits
C12_Witness ==
  /\ calls = 2
  /\ last.op = "Join"
  /\ last.args = <<3, 4, 5>>
  /\ IsSplitOf(last.args, 1)
  /\ GetWires(St, last.res[1]) = GetWires(St, 1)
  /\ Len(GetWires(St, 1)) = 3
  /\ last.res[1] # 1

\* some element's protocol differs from the first element's
Mixed(ss) == \E i \in DOMAIN ss : Protocol(ss[i]) # Protocol(ss[1])

\* C13: Join of an empty vector throws "ShareWrapper cannot be empty", Join
\* of a vector with an element whose protocol differs from the first's, at
\* any position, throws "Trying to join shares of different types"; neither
\* creates a share
C13_JoinErrors ==
  [][ last'.op = "Join" =>
        /\ last'.args = <<>> =>
              (last'.err = ErrJoinEmpty /\ shares' = shares /\ last'.res = <<>>)
        /\ (last'.args # <<>> /\ Mixed(last'.args)) =>
              (last'.err = ErrJoinTypes /\ shares' = shares /\ last'.res = <<>>) ]_vars

\* the third of three wrappers is of another protocol
C13_Witness ==
  /\ last.op = "Join"
  /\ Len(last.args) = 3
  /\ Protocol(last.args[2]) = Protocol(last.args[1])
  /\ Protocol(last.args[3]) # Protocol(last.args[1])
  /\ last.err = ErrJoinTypes

\* the bit a primitive computes
PrimitiveBit(type, x, y) ==
  IF type = "kXor" THEN (x + y) % 2
  ELSE IF type = "kAnd" THEN x * y
  ELSE IF type = "kOr" THEN x + y - x * y
  ELSE 1 - x

\* the bits of all slots after the gates from gate_i on, by the description
RECURSIVE SlotBits(_, _, _)
SlotBits(algorithm, bits, gate_i) ==
  IF gate_i > Len(algorithm.gates) THEN bits
  ELSE SlotBits(algorithm,
                [bits EXCEPT ![algorithm.gates[gate_i].output_wire + 1] =
                   PrimitiveBit(algorithm.gates[gate_i].type,
                                bits[algorithm.gates[gate_i].parent_a + 1],
                                IF algorithm.gates[gate_i].parent_b = <<>> THEN 0
                                ELSE bits[algorithm.gates[gate_i].parent_b[1] + 1])],
                gate_i + 1)

\* the bits of the output slots for the input bits v
OutputBits(algorithm, v) ==
  SubSeq(SlotBits(algorithm,
                  [i \in 1..algorithm.number_of_wires |-> IF i <= Len(v) THEN v[i] ELSE 0], 1),
         algorithm.number_of_wires - algorithm.number_of_output_wires + 1,
         algorithm.number_of_wires)

SupportedTags(algorithm) ==
  \A i \in DOMAIN algorithm.gates : algorithm.gates[i].type \in {"kXor", "kAnd", "kOr", "kInv"}

\* the receiver a description fits: boolean, as many bits as declared inputs
Fits(a, algorithm) ==
  /\ Protocol(a) \in {kBooleanGmw, kBmr}
  /\ BitLength(a) = NumberOfInputWires(algorithm)

\* the call x[0] ^ x[1] on the bits of x
DirectXor(x) == Then(Split(St, x), LAMBDA sp : OperatorXor(sp.st, sp.res[1], sp.res[2]))

\* C14: for a description with supported tags and a boolean receiver of the
\* declared number of input bits, Evaluate returns a share of
\* number_of_output_wires bits holding the last slots, each gate slot being
\* its primitive applied to its parent slots; for one XOR gate over two input
\* wires the registered gate and the result's wires are those of x[0] ^ x[1]
C14_Evaluate ==
  [][ (/\ last'.op = "Evaluate"
       /\ SupportedTags(last'.param)
       /\ Fits(last'.args[1], last'.param))
        => /\ last'.err = NoError
           /\ log' = log
           /\ Len(shares'[last'.res[1]].wires) = last'.param.number_of_output_wires
           /\ shares'[last'.res[1]].protocol = Protocol(last'.args[1])
           /\ [i \in 1..last'.param.number_of_output_wires |->
                 wires'[shares'[last'.res[1]].wires[i]].val]
                = OutputBits(last'.param, Values(St, last'.args[1]))
           /\ last'.param = AlgXor =>
                /\ gates' = DirectXor(last'.args[1]).st.gates
                /\ wires' = DirectXor(last'.args[1]).st.wires
                /\ shares'[last'.res[1]].wires =
                     GetWires(DirectXor(last'.args[1]).st, DirectXor(last'.args[1]).res) ]_vars

\* AND then XOR over three input bits 1, 1, 1: outputs 1 and 0
C14_Witness ==
  /\ last.op = "Evaluate"
  /\ last.param = AlgAndXor
  /\ Protocol(last.args[1]) = kBmr
  /\ Values(St, last.args[1]) = <<1, 1, 1>>
  /\ Values(St, last.res[1]) = <<1, 0>>
  /\ Kinds(NewGates) = <<"And", "Xor">>

\* C15: Evaluate throws "Invalid PrimitiveOperationType" when it comes to a
\* gate record whose tag is not kXor, kAnd, kOr or kInv, at any position of
\* the gate list, and returns no share
C15_UnsupportedGateType ==
  (/\ last.op = "Evaluate"
   /\ ~SupportedTags(last.param)
   /\ Fits(last.args[1], last.param))
    => (last.err = ErrPrimitiveType /\ last.res = <<>>)

\* the unsupported record is second, after an XOR that was built
C15_Witness ==
  /\ last.op = "Evaluate"
  /\ last.param = AlgXorOther
  /\ Fits(last.args[1], last.param)
  /\ last.err = ErrPrimitiveType
  /\ Kinds(NewGates) = <<"Xor">>

\* C16: when the receiver's bit length differs from the declared number of
\* input wires, Evaluate logs the error and goes on through Split, the gate
\* loop and the final Join
C16_MismatchContinues ==
  (/\ last.op = "Evaluate"
   /\ SupportedTags(last.param)
   /\ Protocol(last.args[1]) \in {kBooleanGmw, kBmr}
   /\ BitLength(last.args[1]) # NumberOfInputWires(last.param))
    => /\ log # <<>>
       /\ last.err = NoError
       /\ BitLength(last.res[1]) = last.param.number_of_output_wires

\* C17: Evaluate is the only operator that logs an error and goes on
C17_OnlyEvaluateLogs ==
  [][ log' # log => last'.op = "Evaluate" ]_vars

\* the exceptions of the error taxonomy
ListedErrors ==
  {ErrBooleanOnArithmetic, ErrArithmeticOnly, ErrBadCast, ErrMuxNotImplemented,
   ErrSameProtocol, ErrInvalidBitlength, ErrJoinEmpty, ErrJoinTypes, ErrJoinBitLength,
   ErrJoinProtocol, ErrPrimitiveType, ErrUnknownRing, ErrUnknownProtocol}

\* C18: a call that throws one of the listed errors leaves the register
\* with exactly the gates it held before the call
C18_NoPartialGraph ==
  last.err \in ListedErrors => NoGateRegistered

\* C19: no call changes a share that existed before it: its protocol tag,
\* ring width and wire list, and the wires themselves, stay as they were,
\* and every wrapper a call returns references a share the call created
C19_Frame ==
  [][ /\ Len(shares') >= Len(shares)
      /\ \A x \in DOMAIN shares : shares'[x] = shares[x]
      /\ Len(wires') >= Len(wires)
      /\ \A w \in DOMAIN wires : wires'[w] = wires[w]
      /\ \A i \in DOMAIN last'.res :
           /\ last'.res[i] > Len(shares)
           /\ last'.res[i] <= Len(shares') ]_vars

\* an addition with a constant operand after another call
C19_Witness ==
  /\ calls = 2
  /\ last.op = "+"
  /\ Protocol(last.args[2]) = kConstant
  /\ last.err = NoError
  /\ Kinds(NewGates) = <<"ConstantArithmeticAddition">>
  /\ last.res[1] = Len(shares)

\* C20: on boolean shares a | b is NOT(NOT(a) AND NOT(b)): it registers
\* three inversion gates and one AND gate and no other gate, the inversions
\* of a and of b before the AND that reads them and the inversion of the AND
\* last, and its value is the bitwise OR of a and b
C20_OrComposition ==
  (last.op = "|" /\ Protocol(last.args[1]) \in {kBooleanGmw, kBmr})
    => /\ last.err = NoError
       /\ Kinds(NewGates) = <<"Inv", "Inv", "And", "Inv">>
       /\ \E i \in {1, 2} :
            /\ NewGates[i].in = << GetWires(St, last.args[1]) >>
            /\ NewGates[3 - i].in = << GetWires(St, last.args[2]) >>
            /\ NewGates[3].in = << GetWires(St, NewGates[i].out),
                                   GetWires(St, NewGates[3 - i].out) >>
       /\ NewGates[4].in = << GetWires(St, NewGates[3].out) >>
       /\ last.res = << NewGates[4].out >>
       /\ Protocol(last.res[1]) = Protocol(last.args[1])
       /\ Values(St, last.res[1]) =
            [i \in 1..BitLength(last.args[1]) |->
               IF Values(St, last.args[1])[i] = 1 \/ Values(St, last.args[2])[i] = 1
                 THEN 1 ELSE 0]

\* the bit pairs 0|1 and 1|0 in one call, the right operand inverted first
C20_Witness ==
  /\ last.op = "|"
  /\ Values(St, last.args[1]) = <<0, 1>>
  /\ Values(St, last.args[2]) = <<1, 0>>
  /\ Values(St, last.res[1]) = <<1, 1>>
  /\ NewGates[1].in = << GetWires(St, last.args[2]) >>
  /\ last.args[1] # last.args[2]

\* the sum of a subgroup over all parties, modulo 2^32
RECURSIVE SumOverParties(_)
SumOverParties(partyInputs) ==
  IF partyInputs = <<>> THEN U(0, 0)
  ELSE AddU(Head(partyInputs).val, SumOverParties(Tail(partyInputs)))

\* 0 < sum < k
SmallerK(sum, kValue) == GtU(sum, U(0, 0)) /\ GtU(kValue, sum)

\* C21: after EvaluateProtocolArithmeticThenBoolWithGroups every output of a
\* group with a subgroup sum above 0 and below k is 0, and in a group without
\* such a subgroup every output is the subgroup's sum, or zeroMaskValue() for
\* the sum 0
C21_GroupBlinding ==
  (last.op = "EvaluateProtocolArithmeticThenBoolWithGroups" /\ last.err = NoError) =>
    \A groupIdx \in DOMAIN last.args :
      IF \E subgroupIdx \in DOMAIN last.args[groupIdx] :
           SmallerK(SumOverParties(last.args[groupIdx][subgroupIdx]), last.param)
        THEN \A subgroupIdx \in DOMAIN last.args[groupIdx] :
               last.res[groupIdx][subgroupIdx] = U(0, 0)
        ELSE \A subgroupIdx \in DOMAIN last.args[groupIdx] :
               last.res[groupIdx][subgroupIdx] =
                 IF SumOverParties(last.args[groupIdx][subgroupIdx]) = U(0, 0)
                   THEN zeroMaskValue
                   ELSE SumOverParties(last.args[groupIdx][subgroupIdx])

\* the sum of input j over all parties, modulo 2^32
InputSum(inputValues, j) ==
  SumOverParties([i \in DOMAIN inputValues |-> inputValues[i][j]])

\* C22: after EvaluateProtocolBasic output j is zeroMaskValue() when the sum
\* s_j is 0, 0 when 0 < s_j < k and s_j when s_j >= k, and the output tells
\* the three cases apart
C22_BasicCases ==
  (last.op = "EvaluateProtocolBasic" /\ last.err = NoError) =>
    \A j \in DOMAIN last.res :
      /\ last.res[j] =
           IF InputSum(last.args, j) = U(0, 0) THEN zeroMaskValue
           ELSE IF SmallerK(InputSum(last.args, j), last.param) THEN U(0, 0)
           ELSE InputSum(last.args, j)
      /\ last.res[j] = zeroMaskValue => InputSum(last.args, j) = U(0, 0)
      /\ last.res[j] = U(0, 0) => SmallerK(InputSum(last.args, j), last.param)

\* the gate kind of a bitwise operator
KindOf(op) == IF op = "~" THEN "Inv" ELSE IF op = "^" THEN "Xor" ELSE "And"

\* C23: ~, ^ and & on boolean operands register exactly one gate, of the
\* operator's kind and the operands' protocol, and return the output share of
\* that gate, with the operands' protocol and bit length
C23_OneGatePerOperator ==
  (last.op \in {"~", "^", "&"} /\ Protocol(last.args[1]) \in {kBooleanGmw, kBmr}) =>
    /\ last.err = NoError
    /\ Len(NewGates) = 1
    /\ NewGates[1].kind = KindOf(last.op)
    /\ NewGates[1].protocol = Protocol(last.args[1])
    /\ NewGates[1].out = last.res[1]
    /\ Protocol(last.res[1]) = Protocol(last.args[1])
    /\ BitLength(last.res[1]) = BitLength(last.args[1])

C23_Witness ==
  /\ last.op = "&"
  /\ Protocol(last.args[1]) = kBmr
  /\ BitLength(last.args[1]) = 3
  /\ Len(NewGates) = 1
  /\ NewGates[1].kind = "And"

\* the two-input gate of an arithmetic operator and its constant-operand variant
StandardKind(op) ==
  IF op = "+" THEN "Addition" ELSE IF op = "-" THEN "Subtraction" ELSE "Multiplication"

ConstantKind(op) ==
  IF op = "+" THEN "ConstantArithmeticAddition"
  ELSE IF op = "-" THEN "ConstantArithmeticSubtraction"
  ELSE "ConstantArithmeticMultiplication"

\* two distinct operands of a supported width, arithmetic or constant, at
\* most one of them constant
ArithmeticOperands(a, b) ==
  /\ a # b
  /\ BitLength(a) \in Widths
  /\ {Protocol(a), Protocol(b)} \in {{kArithmeticGmw}, {kArithmeticGmw, kConstant}}

\* C24: +, - and * of every supported width register the standard two-input
\* gate for two non-constant operands and the constant-operand gate when
\* exactly one operand, in either position, is constant
C24_ConstantOperands ==
  (last.op \in {"+", "-", "*"} /\ ArithmeticOperands(last.args[1], last.args[2])) =>
    /\ last.err = NoError
    /\ Len(NewGates) = 1
    /\ NewGates[1].kind =
         IF kConstant \in {Protocol(last.args[1]), Protocol(last.args[2])}
           THEN ConstantKind(last.op)
           ELSE StandardKind(last.op)

\* the plain content of the wires of a share
WireValues(s) == [i \in DOMAIN shares[s].wires |-> wires[shares[s].wires[i]].val]

\* C25: a * b on ArithmeticGmw operands of a supported width registers
\* exactly one gate: the square gate if and only if both wrappers hold the
\* same share, the multiplication gate otherwise, also when two distinct
\* shares hold equal values
C25_SquareByIdentity ==
  (/\ last.op = "*"
   /\ Protocol(last.args[1]) = kArithmeticGmw
   /\ Protocol(last.args[2]) = kArithmeticGmw
   /\ BitLength(last.args[1]) \in Widths) =>
    /\ last.err = NoError
    /\ Len(NewGates) = 1
    /\ NewGates[1].kind =
         IF last.args[1] = last.args[2] THEN "Square" ELSE "Multiplication"

\* two distinct shares of equal value are multiplied, not squared
C25_Witness ==
  /\ last.op = "*"
  /\ Protocol(last.args[1]) = kArithmeticGmw
  /\ Protocol(last.args[2]) = kArithmeticGmw
  /\ BitLength(last.args[1]) = 32
  /\ last.args[1] # last.args[2]
  /\ WireValues(last.args[1]) = WireValues(last.args[2])
  /\ Len(NewGates) = 1
  /\ NewGates[1].kind = "Multiplication"

\* the number of ones in the binary expansion of m
RECURSIVE PopCount(_)
PopCount(m) == IF m = 0 THEN 0 ELSE (m % 2) + PopCount(m \div 2)

\* a pass of the loop replaced m > 1 bits by popcount(m) bits, fewer than m,
\* and by one bit when m is a power of two
IterationShrinks ==
  (last.op = "EqIteration") =>
    /\ last.err = NoError
    /\ BitLength(last.args[1]) > 1
    /\ BitLength(last.res[1]) = PopCount(BitLength(last.args[1]))
    /\ BitLength(last.res[1]) < BitLength(last.args[1])
    /\ IsPowerOfTwo(BitLength(last.args[1])) => BitLength(last.res[1]) = 1

\* the loop goes on exactly as long as the result has more than one bit
ExitsAtOneBit ==
  (calls >= 1) => ((ENABLED EqLoopIteration) <=> BitLength(LoopResult) # 1)

\* C26: for every bit length n >= 2 that is not a power of two the loop of
\* operator== terminates: every pass replaces m > 1 bits by popcount(m) bits,
\* strictly fewer and exactly one for a power of two, and the loop is left
\* exactly when the result has one bit
C26_LoopTerminates ==
  /\ [](IterationShrinks /\ ExitsAtOneBit)
  /\ <>(calls >= 1 /\ BitLength(LoopResult) = 1)

\* 7 bits became 3, 3 became 2, 2 became 1
C26_Witness ==
  /\ last.op = "EqIteration"
  /\ calls = 4
  /\ BitLength(held[3]) = 7
  /\ BitLength(last.args[1]) = 2
  /\ BitLength(LoopResult) = 1

\* the wires of the segments of a pass, segment after segment
RECURSIVE SegmentWires(_)
SegmentWires(q) ==
  IF q = <<>> THEN <<>> ELSE shares[Head(q)].wires \o SegmentWires(Tail(q))

\* C27: in every pass of the loop over m bits the segments handed to the AND
\* reduction are contiguous, pairwise disjoint and cover all m bits, and their
\* lengths are exactly the powers of two of the binary expansion of m, one
\* per set bit
C27_Segments ==
  (last.op = "EqIteration") =>
    /\ SegmentWires(last.param) = shares[last.args[1]].wires
    /\ Len(last.param) = PopCount(BitLength(last.args[1]))
    /\ \A i \in DOMAIN last.param :
         /\ IsPowerOfTwo(BitLength(last.param[i]))
         /\ (BitLength(last.args[1]) \div BitLength(last.param[i])) % 2 = 1
         /\ \A j \in DOMAIN last.param :
              i < j => BitLength(last.param[i]) < BitLength(last.param[j])

\* 13 bits in segments of 1, 4 and 8 bits
C27_Witness ==
  /\ last.op = "EqIteration"
  /\ BitLength(last.args[1]) = 13
  /\ Len(last.param) = 3
  /\ BitLength(last.param[1]) = 1
  /\ BitLength(last.param[2]) = 4
  /\ BitLength(last.param[3]) = 8

\* the gate record the next pass of the gate loop takes
NextGate == last.param.gates[GatesProcessed + 1]

\* a pass of the gate loop takes the record of the next wire, reads filled
\* slots only and fills the empty slot of its output wire, leaving every other
\* slot as it was
GatePass ==
  (last'.op = "Evaluate: gate") =>
    /\ last'.err = NoError
    /\ NextGate.output_wire = NumberOfInputWires(last.param) + GatesProcessed
    /\ last.res[NextGate.parent_a + 1] # 0
    /\ NextGate.parent_b # <<>> => last.res[NextGate.parent_b[1] + 1] # 0
    /\ last.res[NextGate.output_wire + 1] = 0
    /\ last'.res[NextGate.output_wire + 1] # 0
    /\ \A i \in DOMAIN last.res :
         i # NextGate.output_wire + 1 => last'.res[i] = last.res[i]

\* the loop is left after number_of_wires - number_of_input_wires passes,
\* with every slot filled
AllGatesProcessed ==
  (last'.op = "Evaluate: Join") =>
    /\ last'.err = NoError
    /\ GatesProcessed = last.param.number_of_wires - NumberOfInputWires(last.param)
    /\ GatesProcessed = last.param.number_of_gates
    /\ \A i \in DOMAIN last.res : last.res[i] # 0

\* C28: Evaluate on a description that satisfies the data-model invariant,
\* with a receiver of as many bits as input wires: every slot a gate reads is
\* filled before, every gate slot is written exactly once, no input slot is
\* overwritten, and exactly number_of_wires - number_of_input_wires gate
\* records are processed, in order
C28_SlotDiscipline == [][GatePass /\ AllGatesProcessed]_vars

\* two gates over three input wires, the second reading the first
C28_Witness ==
  /\ last.op = "Evaluate: Join"
  /\ last.err = NoError
  /\ NumberOfInputWires(last.param) = 3
  /\ last.param.number_of_gates = 2
  /\ last.param.gates[1].type = "kOr"
  /\ last.param.gates[2].parent_a = 3

\* how often the input of a party occurs in the elements of single_input
RECURSIVE Occurrences(_, _)
Occurrences(single_input, party) ==
  IF single_input = <<>> THEN 0
  ELSE Head(single_input).owners[party] + Occurrences(Tail(single_input), party)

TreeOps ==
  {"single_input = inputValues[k]", "while (single_input.size() > 1)",
   "sums[k] = single_input[0]"}

\* the elements of single_input together hold every party's input once, and
\* their values add up to the sum of the inputs
EachPartyOnce ==
  (last.op \in TreeOps) =>
    /\ \A party \in DOMAIN last.args : Occurrences(last.res, party) = 1
    /\ SumOverParties(last.res) = SumOverParties(last.args)

\* a round over an odd number of elements carries the last one over unchanged
LeftoverCarried ==
  (last'.op = "while (single_input.size() > 1)") =>
    /\ Len(last'.res) = (Len(last.res) + 1) \div 2
    /\ Len(last.res) % 2 = 1 => last'.res[Len(last'.res)] = last.res[Len(last.res)]

\* sums[k] is assigned: one element that holds every input once
TreeDone ==
  /\ last.op = "sums[k] = single_input[0]"
  /\ Len(last.res) = 1
  /\ \A party \in DOMAIN last.args : last.res[1].owners[party] = 1

\* C29: the balanced-tree addition loop terminates for every number p >= 1 of
\* parties and leaves in single_input[0] a sum in which each of the p inputs
\* occurs exactly once; an odd leftover is carried unchanged into the next
\* round, neither dropped nor added twice
C29_TreeAddition ==
  /\ []EachPartyOnce
  /\ [][LeftoverCarried]_vars
  /\ <>TreeDone

\* seven inputs: 7 -> 4 -> 2 -> 1, with a leftover in the first round
C29_Witness ==
  /\ TreeDone
  /\ Len(last.args) = 7
  /\ last.res[1].val = SumOverParties(last.args)

\* C30: in the sum computation of EvaluateProtocolArithmeticThenBoolWithGroups
\* the subgroup index of every group runs over exactly the subgroups of that
\* group, so that no vector is accessed out of bounds and every subgroup's sum
\* is computed, also when the number of groups differs from a group's number
\* of subgroups
C30_SubgroupRange ==
  (last.op = "EvaluateProtocolArithmeticThenBoolWithGroups") =>
    /\ last.err = NoError
    /\ \A groupIdx \in DOMAIN last.args :
         SubgroupIndices(last.args, groupIdx) = DOMAIN last.args[groupIdx]

====
